---- MODULE Spec2Model ----
(***************************************************************************)
(* A model of markupflow (src/markupflow/__init__.py): Fragment builders,  *)
(* the lazily written _TagContext, the escaping helpers and the memoized   *)
(* attribute-name conversion.                                              *)
(*                                                                         *)
(* Python strings are sequences of one-character strings, so that          *)
(* escaping, name conversion and the f-strings that build tags are         *)
(* computed character by character.  A Python value (AttrValue) is a       *)
(* record [kind, s]: None, or a str with its characters.                   *)
(***************************************************************************)
EXTENDS Integers, Sequences, FiniteSets, TLC

\* ------------------------------------------------------------------------
\* Bounds of the exploration
\* ------------------------------------------------------------------------
MaxCalls == 5       \* calls the caller makes (leaving a with-block is free)
MaxContexts == 2    \* _TagContext objects created by Fragment.tag
MaxDepth == 2       \* nested with-blocks
MaxLen == 2         \* characters of a text content or attribute value
MaxName == 5        \* characters of an attribute name given to _convert_attr_name

\* the Fragment objects (Document is a Fragment with no further behaviour)
Fragments == {1, 2}

\* ------------------------------------------------------------------------
\* Python values and strings
\* ------------------------------------------------------------------------
None == [kind |-> "none", s |-> <<>>]
Str(s) == [kind |-> "str", s |-> s]

\* str(value) for a non-None value
PyStr(v) == v.s

\* truthiness of a value: None and the empty string are falsy
Truthy(v) == v.kind = "str" /\ v.s # <<>>

RECURSIVE Join(_)
\* "".join(chunks)
Join(chunks) ==
    IF chunks = <<>> THEN <<>> ELSE Head(chunks) \o Join(Tail(chunks))

RECURSIVE JoinSep(_, _)
\* sep.join(chunks)
JoinSep(sep, chunks) ==
    IF chunks = <<>> THEN <<>>
    ELSE IF Len(chunks) = 1 THEN Head(chunks)
    ELSE Head(chunks) \o sep \o JoinSep(sep, Tail(chunks))

RECURSIVE Replace(_, _, _)
\* s.replace(ch, rep) for a one-character ch
Replace(s, ch, rep) ==
    IF s = <<>> THEN <<>>
    ELSE (IF Head(s) = ch THEN rep ELSE <<Head(s)>>) \o Replace(Tail(s), ch, rep)

\* an html.escape that replaces "&" after "<" and ">"
html_escape_amp_last(s, quote) ==
    LET s1 == Replace(s, "<", <<"&", "l", "t", ";">>)
        s2 == Replace(s1, ">", <<"&", "g", "t", ";">>)
        s3 == Replace(s2, "&", <<"&", "a", "m", "p", ";">>)
        s4 == Replace(s3, "\"", <<"&", "q", "u", "o", "t", ";">>)
        s5 == Replace(s4, "'", <<"&", "#", "x", "2", "7", ";">>)
    IN IF quote THEN s5 ELSE s3

\* html.escape(s, quote): "&" is replaced first, then "<" and ">", and with
\* quote=True the double and the single quote
html_escape(s, quote) ==
    LET s1 == Replace(s, "&", <<"&", "a", "m", "p", ";">>)
        s2 == Replace(s1, "<", <<"&", "l", "t", ";">>)
        s3 == Replace(s2, ">", <<"&", "g", "t", ";">>)
        s4 == Replace(s3, "\"", <<"&", "q", "u", "o", "t", ";">>)
        s5 == Replace(s4, "'", <<"&", "#", "x", "2", "7", ";">>)
    IN IF quote THEN s5 ELSE s3

\* an _escape_attr_value that passes quote=False
_escape_attr_value_unquoted(value) ==
    IF value = None THEN <<>> ELSE html_escape(PyStr(value), FALSE)

_escape_attr_value(value) ==
    IF value = None THEN <<>> ELSE html_escape(PyStr(value), TRUE)

_escape_text(text) ==
    IF text = None THEN <<>> ELSE html_escape(PyStr(text), FALSE)

\* ------------------------------------------------------------------------
\* Attribute-name conversion (memoized in the module-level _ATTR_NAME_CACHE)
\* ------------------------------------------------------------------------
LowerLetters ==
    <<"a", "b", "c", "d", "e", "f", "g", "h", "i", "j", "k", "l", "m",
      "n", "o", "p", "q", "r", "s", "t", "u", "v", "w", "x", "y", "z">>
UpperLetters ==
    <<"A", "B", "C", "D", "E", "F", "G", "H", "I", "J", "K", "L", "M",
      "N", "O", "P", "Q", "R", "S", "T", "U", "V", "W", "X", "Y", "Z">>
Digits == {"0", "1", "2", "3", "4", "5", "6", "7", "8", "9"}

\* the regex class \w: letters, digits and the underscore
IsWordChar(ch) ==
    \/ \E i \in 1..Len(LowerLetters) : LowerLetters[i] = ch \/ UpperLetters[i] = ch
    \/ ch \in Digits
    \/ ch = "_"

\* str.lower() of one character
LowerChar(ch) ==
    IF \E i \in 1..Len(UpperLetters) : UpperLetters[i] = ch
    THEN LowerLetters[CHOOSE i \in 1..Len(UpperLetters) : UpperLetters[i] = ch]
    ELSE ch

\* str.lower()
Lower(s) == [i \in 1..Len(s) |-> LowerChar(s[i])]

RECURSIVE _ATTR_NAME_PATTERN_sub(_)
\* _ATTR_NAME_PATTERN.sub(r"\1-\2", s) with the pattern (\w)_(\w): matches
\* are found left to right and do not overlap, so the scan resumes after
\* the three characters of a match
_ATTR_NAME_PATTERN_sub(s) ==
    IF s = <<>> THEN <<>>
    ELSE IF Len(s) >= 3 /\ IsWordChar(s[1]) /\ s[2] = "_" /\ IsWordChar(s[3])
         THEN <<s[1], "-", s[3]>> \o _ATTR_NAME_PATTERN_sub(SubSeq(s, 4, Len(s)))
         ELSE <<s[1]>> \o _ATTR_NAME_PATTERN_sub(Tail(s))

\* a conversion without the  name.endswith("_")  branch
convert_uncached_keeps_filler(name) ==
    IF name \in {<<"c", "l", "a", "s", "s", "_">>, <<"c", "l", "a", "s", "s", "e", "s">>}
    THEN <<"c", "l", "a", "s", "s">>
    ELSE _ATTR_NAME_PATTERN_sub(name)

\* the value _convert_attr_name stores for a name that is not in the cache
convert_uncached(name) ==
    IF name \in {<<"c", "l", "a", "s", "s", "_">>, <<"c", "l", "a", "s", "s", "e", "s">>}
    THEN <<"c", "l", "a", "s", "s">>
    ELSE IF name # <<>> /\ name[Len(name)] = "_"
         THEN SubSeq(name, 1, Len(name) - 1)
         ELSE _ATTR_NAME_PATTERN_sub(name)

\* _convert_attr_name(name) run with the cache `cache`: the cache afterwards
\* and the returned name (always read back from the cache)
_convert_attr_name(cache, name) ==
    LET cache1 == IF name \in DOMAIN cache THEN cache
                  ELSE [n \in (DOMAIN cache) \cup {name} |->
                            IF n = name THEN convert_uncached(name) ELSE cache[n]]
    IN [cache |-> cache1, name |-> cache1[name]]

\* ------------------------------------------------------------------------
\* Ordered dictionaries (dict[str, AttrValue]): sequences of [k, v] items
\* ------------------------------------------------------------------------
HasKey(d, k) == \E i \in 1..Len(d) : d[i].k = k

\* d.get(k): the value, or None when the key is missing
DictGet(d, k) ==
    IF HasKey(d, k) THEN d[CHOOSE i \in 1..Len(d) : d[i].k = k].v ELSE None

\* a d[k] = v that puts a new key first
DictSet_new_key_first(d, k, v) ==
    IF HasKey(d, k)
    THEN [i \in 1..Len(d) |-> IF d[i].k = k THEN [k |-> k, v |-> v] ELSE d[i]]
    ELSE <<[k |-> k, v |-> v]>> \o d

\* d[k] = v: an existing key keeps its position, a new key goes last
DictSet(d, k, v) ==
    IF HasKey(d, k)
    THEN [i \in 1..Len(d) |-> IF d[i].k = k THEN [k |-> k, v |-> v] ELSE d[i]]
    ELSE Append(d, [k |-> k, v |-> v])

\* ------------------------------------------------------------------------
\* _TagContext
\* ------------------------------------------------------------------------
VoidElements ==
    { <<"a", "r", "e", "a">>, <<"b", "a", "s", "e">>, <<"b", "r">>,
      <<"c", "o", "l">>, <<"e", "m", "b", "e", "d">>, <<"h", "r">>,
      <<"i", "m", "g">>, <<"i", "n", "p", "u", "t">>, <<"l", "i", "n", "k">>,
      <<"m", "e", "t", "a">>, <<"p", "a", "r", "a", "m">>,
      <<"s", "o", "u", "r", "c", "e">>, <<"t", "r", "a", "c", "k">>,
      <<"w", "b", "r">> }

\* _TagContext.__init__ (attrs.copy() is the value attrs itself)
NewTagContext(fragment, tag_name, attrs, self_closing) ==
    [_fragment |-> fragment, _tag_name |-> tag_name, _self_closing |-> self_closing,
     _attrs |-> attrs, _opened |-> FALSE]

RECURSIVE attr_items_keep_none(_, _)
\* a generator without the  if v is not None  filter
attr_items_keep_none(cache, attrs) ==
    IF attrs = <<>> THEN [cache |-> cache, chunks |-> <<>>]
    ELSE LET a == Head(attrs)
             r == _convert_attr_name(cache, a.k)
             rest == attr_items_keep_none(r.cache, Tail(attrs))
         IN [cache |-> rest.cache,
             chunks |-> << r.name \o <<"=", "\"">>
                             \o _escape_attr_value(a.v) \o <<"\"">> >>
                        \o rest.chunks]

RECURSIVE attr_items(_, _)
\* the generator of _ensure_opened: one  name="value"  chunk per item whose
\* value is not None, converting each name through the cache in turn
attr_items(cache, attrs) ==
    IF attrs = <<>> THEN [cache |-> cache, chunks |-> <<>>]
    ELSE LET a == Head(attrs)
         IN IF a.v = None THEN attr_items(cache, Tail(attrs))
            ELSE LET r == _convert_attr_name(cache, a.k)
                     rest == attr_items(r.cache, Tail(attrs))
                 IN [cache |-> rest.cache,
                     chunks |-> << r.name \o <<"=", "\"">>
                                     \o _escape_attr_value(a.v) \o <<"\"">> >>
                                \o rest.chunks]

\* the attr_str of _ensure_opened: the branch is taken on the dictionary
\* being non-empty, the join runs over the chunks of the non-None items
attr_str(attrs, chunks) ==
    IF attrs # <<>> THEN <<" ">> \o JoinSep(<<" ">>, chunks) ELSE <<>>

\* the text _ensure_opened appends for the context tc
opening_tag(tc, chunks) ==
    IF tc._self_closing
    THEN <<"<">> \o tc._tag_name \o attr_str(tc._attrs, chunks) \o <<" ", "/", ">">>
    ELSE <<"<">> \o tc._tag_name \o attr_str(tc._attrs, chunks) \o <<">">>

\* an _ensure_opened without the  if not self._opened  test
ensure_opened_every_time(h, c) ==
    LET tc == h.contexts[c]
        items == attr_items(h.cache, tc._attrs)
    IN [h EXCEPT !.contexts = [i \in 1..Len(h.contexts) |->
                                  IF i = c THEN [tc EXCEPT !._opened = TRUE]
                                  ELSE h.contexts[i]],
                 !._parts[tc._fragment] = Append(@, opening_tag(tc, items.chunks)),
                 !.cache = items.cache]

\* _TagContext._ensure_opened of context c, on the program state
\* h = [_parts, _tag_stack, _context_stack, contexts, cache]
_ensure_opened(h, c) ==
    IF h.contexts[c]._opened THEN h
    ELSE LET tc == h.contexts[c]
             items == attr_items(h.cache, tc._attrs)
         IN [h EXCEPT !.contexts[c]._opened = TRUE,
                      !._parts[tc._fragment] = Append(@, opening_tag(tc, items.chunks)),
                      !.cache = items.cache]

\* the forcing step of tag/text/raw/fragment on fragment f:
\*   if self._context_stack: self._context_stack[-1]._ensure_opened()
ensure_current_opened(h, f) ==
    LET stack == h._context_stack[f]
    IN IF stack # <<>> THEN _ensure_opened(h, stack[Len(stack)]) ELSE h

\* an __enter__ that pushes a self-closing context as it does the others
enter_pushes_self_closing(h, c) ==
    LET tc == h.contexts[c]
        h1 == IF tc._self_closing THEN _ensure_opened(h, c) ELSE h
    IN [h1 EXCEPT !._tag_stack[tc._fragment] = Append(@, tc._tag_name),
                  !._context_stack[tc._fragment] = Append(@, c)]

\* an __enter__ that makes the context pending again
enter_resets_opened(h, c) ==
    LET tc == h.contexts[c]
        again == [i \in 1..Len(h.contexts) |->
                     IF i = c THEN [tc EXCEPT !._opened = FALSE] ELSE h.contexts[i]]
    IN IF ~tc._self_closing
       THEN [h EXCEPT !._tag_stack[tc._fragment] = Append(@, tc._tag_name),
                      !._context_stack[tc._fragment] = Append(@, c),
                      !.contexts = again]
       ELSE _ensure_opened(h, c)

\* _TagContext.__enter__ of context c
__enter__(h, c) ==
    LET tc == h.contexts[c]
    IN IF ~tc._self_closing
       THEN [h EXCEPT !._tag_stack[tc._fragment] = Append(@, tc._tag_name),
                      !._context_stack[tc._fragment] = Append(@, c)]
       ELSE _ensure_opened(h, c)

\* list.pop()
Pop(l) == SubSeq(l, 1, Len(l) - 1)

\* an __exit__ that leaves the _context_stack as it is
exit_without_context_pop(h, c) ==
    LET tc == h.contexts[c]
        f == tc._fragment
        h1 == _ensure_opened(h, c)
    IN IF tc._self_closing THEN [h |-> h, raised |-> FALSE]
       ELSE IF h1._tag_stack[f] = <<>> THEN [h |-> h1, raised |-> TRUE]
       ELSE LET closing_tag == h1._tag_stack[f][Len(h1._tag_stack[f])]
            IN [h |-> [h1 EXCEPT !._tag_stack[f] = Pop(@),
                                 !._parts[f] = Append(@, <<"<", "/">> \o closing_tag \o <<">">>)],
                raised |-> FALSE]

\* _TagContext.__exit__ of context c: the state it leaves and whether
\* list.pop() raised IndexError on an empty stack
__exit__(h, c) ==
    LET tc == h.contexts[c]
        f == tc._fragment
        h1 == _ensure_opened(h, c)
    IN IF tc._self_closing THEN [h |-> h, raised |-> FALSE]
       ELSE IF h1._tag_stack[f] = <<>> THEN [h |-> h1, raised |-> TRUE]
       ELSE LET closing_tag == h1._tag_stack[f][Len(h1._tag_stack[f])]
                h2 == [h1 EXCEPT !._tag_stack[f] = Pop(@),
                                 !._parts[f] = Append(@, <<"<", "/">> \o closing_tag \o <<">">>)]
            IN IF h2._context_stack[f] = <<>> THEN [h |-> h2, raised |-> TRUE]
               ELSE [h |-> [h2 EXCEPT !._context_stack[f] = Pop(@)], raised |-> FALSE]

\* ------------------------------------------------------------------------
\* Inputs of the exploration
\* ------------------------------------------------------------------------
div == <<"d", "i", "v">>
para == <<"p">>
br == <<"b", "r">>
BR == <<"B", "R">>
id == <<"i", "d">>
class_ == <<"c", "l", "a", "s", "s", "_">>

Item(k, v) == [k |-> k, v |-> v]

\* tag(tag_name, **attrs): a tag name with its keyword attributes
TagInputs ==
    { <<div, <<>>>>, <<div, <<Item(id, Str(<<"a">>))>>>>, <<para, <<>>>>,
      <<br, <<>>>>, <<BR, <<Item(id, None)>>>> }

\* attr(name, value)
AttrInputs == { <<id, None>>, <<id, Str(<<"&">>)>>, <<class_, Str(<<"x">>)>> }

\* classes(class_name)
ClassNames == { <<"b">> }

\* text(content), raw(content)
Contents == { None, Str(<<"<">>) }

\* the spellings of the class attribute and of a data attribute
class == <<"c", "l", "a", "s", "s">>
classes_alias == <<"c", "l", "a", "s", "s", "e", "s">>
data_value == <<"d", "a", "t", "a", "_", "v", "a", "l", "u", "e">>
data_hyphen_value == <<"d", "a", "t", "a", "-", "v", "a", "l", "u", "e">>

\* tag(tag_name, **attrs) with a keyword attribute under each spelling
SpellingTagInputs ==
    { <<div, <<>>>>, <<div, <<Item(class_, Str(<<"a">>))>>>>,
      <<div, <<Item(classes_alias, Str(<<"a">>))>>>>,
      <<div, <<Item(data_value, Str(<<"1">>))>>>> }

\* attr(name, value) under each spelling
SpellingAttrInputs ==
    { <<class_, Str(<<"x">>)>>, <<class, Str(<<"y">>)>>,
      <<data_hyphen_value, Str(<<"2">>)>> }

\* ------------------------------------------------------------------------
\* State
\* ------------------------------------------------------------------------
VARIABLES
    _parts,            \* Fragment._parts, per fragment
    _tag_stack,        \* Fragment._tag_stack, per fragment
    _context_stack,    \* Fragment._context_stack, per fragment: context ids
    contexts,          \* the _TagContext objects, in creation order
    _ATTR_NAME_CACHE,  \* the module-level cache: name -> converted name
    scopes,            \* the with-blocks the caller is inside of, outermost first:
                       \* the context and the depth of its fragment's stacks at entry
    requested,         \* per context: the attrs tag() was given and the attr() and
                       \* classes() calls that reached it, in call order
    exc,               \* the exception in flight, "none" when there is none
    last,              \* the last call: operation, fragment, context, result
    calls              \* the number of calls made so far

vars == <<_parts, _tag_stack, _context_stack, contexts, _ATTR_NAME_CACHE,
          scopes, requested, exc, last, calls>>

\* the program state as one value
State ==
    [_parts |-> _parts, _tag_stack |-> _tag_stack, _context_stack |-> _context_stack,
     contexts |-> contexts, cache |-> _ATTR_NAME_CACHE]

Commit(h) ==
    /\ _parts' = h._parts
    /\ _tag_stack' = h._tag_stack
    /\ _context_stack' = h._context_stack
    /\ contexts' = h.contexts
    /\ _ATTR_NAME_CACHE' = h.cache

\* the record of a call; twice: the call before it was the same operation on
\* the same fragment
Call(op, f, c, ret) ==
    [op |-> op, f |-> f, c |-> c, ret |-> ret, twice |-> (last.op = op /\ last.f = f)]

\* Fragment.__init__ for every fragment; no call made yet
Init ==
    /\ _parts = [f \in Fragments |-> <<>>]
    /\ _tag_stack = [f \in Fragments |-> <<>>]
    /\ _context_stack = [f \in Fragments |-> <<>>]
    /\ contexts = <<>>
    /\ _ATTR_NAME_CACHE = <<>>
    /\ scopes = <<>>
    /\ requested = <<>>
    /\ exc = "none"
    /\ last = [op |-> "__init__", f |-> 1, c |-> 0, ret |-> <<>>, twice |-> FALSE]
    /\ calls = 0

\* the caller makes one more call
Budget == calls < MaxCalls /\ calls' = calls + 1

\* ------------------------------------------------------------------------
\* Fragment
\* ------------------------------------------------------------------------
\* a tag that pushes the new context on the stacks when it is requested
tag_pushes_at_request(f, tag_name, attrs) ==
    /\ exc = "none"
    /\ Budget
    /\ Len(contexts) < MaxContexts
    /\ LET h1 == ensure_current_opened(State, f)
           self_closing == Lower(tag_name) \in VoidElements
           context == NewTagContext(f, tag_name, attrs, self_closing)
       IN Commit([h1 EXCEPT !.contexts = Append(@, context),
                            !._tag_stack[f] = Append(@, tag_name),
                            !._context_stack[f] = Append(@, Len(contexts) + 1)])
    /\ requested' = Append(requested, [attrs |-> attrs, sets |-> <<>>])
    /\ last' = Call("tag", f, Len(contexts) + 1, <<>>)
    /\ UNCHANGED <<scopes, exc>>

\* Fragment.tag(tag_name, **attrs)
tag(f, tag_name, attrs) ==
    /\ exc = "none"
    /\ Budget
    /\ Len(contexts) < MaxContexts
    /\ LET h1 == ensure_current_opened(State, f)
           self_closing == Lower(tag_name) \in VoidElements
           context == NewTagContext(f, tag_name, attrs, self_closing)
       IN Commit([h1 EXCEPT !.contexts = Append(@, context)])
    /\ requested' = Append(requested, [attrs |-> attrs, sets |-> <<>>])
    /\ last' = Call("tag", f, Len(contexts) + 1, <<>>)
    /\ UNCHANGED <<scopes, exc>>

\* with context: ... is entered
enter(c) ==
    /\ exc = "none"
    /\ Budget
    /\ Len(scopes) < MaxDepth
    /\ Commit(__enter__(State, c))
    /\ scopes' = Append(scopes, [c |-> c, depth |-> Len(_context_stack[contexts[c]._fragment])])
    /\ last' = Call("__enter__", contexts[c]._fragment, c, <<>>)
    /\ UNCHANGED <<requested, exc>>

\* the innermost with-block is left normally
exit ==
    /\ exc = "none"
    /\ scopes # <<>>
    /\ LET c == scopes[Len(scopes)].c
           r == __exit__(State, c)
       IN /\ Commit(r.h)
          /\ exc' = IF r.raised THEN "IndexError" ELSE "none"
          /\ last' = Call("__exit__", contexts[c]._fragment, c, <<>>)
    /\ scopes' = Pop(scopes)
    /\ UNCHANGED <<requested, calls>>

\* an exception propagates out of the innermost with-block: __exit__ runs
\* and returns None, so the exception goes on unless __exit__ raises itself
unwind ==
    /\ exc # "none"
    /\ scopes # <<>>
    /\ LET c == scopes[Len(scopes)].c
           r == __exit__(State, c)
       IN /\ Commit(r.h)
          /\ exc' = IF r.raised THEN "IndexError" ELSE exc
          /\ last' = Call("__exit__", contexts[c]._fragment, c, <<>>)
    /\ scopes' = Pop(scopes)
    /\ UNCHANGED <<requested, calls>>

\* the caller handles the exception in flight (try/except, pytest.raises)
except ==
    /\ exc # "none"
    /\ exc' = "none"
    /\ last' = Call("except", last.f, 0, <<>>)
    /\ UNCHANGED <<_parts, _tag_stack, _context_stack, contexts, _ATTR_NAME_CACHE,
                   scopes, requested, calls>>

\* a text on output that all fragments share: the chunk reaches every one
text_shared_parts(f, content) ==
    /\ exc = "none"
    /\ Budget
    /\ IF content # None
       THEN LET h1 == ensure_current_opened(State, f)
            IN Commit([h1 EXCEPT !._parts =
                          [g \in Fragments |-> Append(h1._parts[g], _escape_text(content))]])
       ELSE Commit(State)
    /\ last' = Call("text", f, 0, <<>>)
    /\ UNCHANGED <<scopes, requested, exc>>

\* a text that forces the current context before it looks at the content
text_forces_on_none(f, content) ==
    /\ exc = "none"
    /\ Budget
    /\ LET h1 == ensure_current_opened(State, f)
       IN IF content # None
          THEN Commit([h1 EXCEPT !._parts[f] = Append(@, _escape_text(content))])
          ELSE Commit(h1)
    /\ last' = Call("text", f, 0, <<>>)
    /\ UNCHANGED <<scopes, requested, exc>>

\* Fragment.text(content)
text(f, content) ==
    /\ exc = "none"
    /\ Budget
    /\ IF content # None
       THEN LET h1 == ensure_current_opened(State, f)
            IN Commit([h1 EXCEPT !._parts[f] = Append(@, _escape_text(content))])
       ELSE Commit(State)
    /\ last' = Call("text", f, 0, <<>>)
    /\ UNCHANGED <<scopes, requested, exc>>

\* a raw that puts its chunk in front of the output
raw_prepends(f, content) ==
    /\ exc = "none"
    /\ Budget
    /\ IF content # None
       THEN LET h1 == ensure_current_opened(State, f)
            IN Commit([h1 EXCEPT !._parts[f] = <<PyStr(content)>> \o @])
       ELSE Commit(State)
    /\ last' = Call("raw", f, 0, <<>>)
    /\ UNCHANGED <<scopes, requested, exc>>

\* Fragment.raw(content)
raw(f, content) ==
    /\ exc = "none"
    /\ Budget
    /\ IF content # None
       THEN LET h1 == ensure_current_opened(State, f)
            IN Commit([h1 EXCEPT !._parts[f] = Append(@, PyStr(content))])
       ELSE Commit(State)
    /\ last' = Call("raw", f, 0, <<>>)
    /\ UNCHANGED <<scopes, requested, exc>>

\* an add_attr without the  if self._opened  check
add_attr_unchecked(c, name, value) ==
    /\ contexts' = [contexts EXCEPT ![c]._attrs = DictSet(@, name, value)]
    /\ UNCHANGED exc

\* _TagContext.add_attr(name, value) of context c
add_attr(c, name, value) ==
    IF contexts[c]._opened
    THEN /\ exc' = "TagAlreadyOpenedError"
         /\ UNCHANGED contexts
    ELSE /\ contexts' = [contexts EXCEPT ![c]._attrs = DictSet(@, name, value)]
         /\ UNCHANGED exc

\* an add_class that checks  self._opened  after it has written the class
add_class_checks_late(c, class_name) ==
    LET a == DictGet(contexts[c]._attrs, class_)
        b == DictGet(contexts[c]._attrs, <<"c", "l", "a", "s", "s">>)
        existing_class == IF Truthy(a) THEN a ELSE b
    IN /\ contexts' = [contexts EXCEPT ![c]._attrs =
              IF Truthy(existing_class)
              THEN DictSet(@, class_, Str(PyStr(existing_class) \o <<" ">> \o class_name))
              ELSE DictSet(@, class_, Str(class_name))]
       /\ exc' = IF contexts[c]._opened THEN "TagAlreadyOpenedError" ELSE exc

\* _TagContext.add_class(class_name) of context c
add_class(c, class_name) ==
    IF contexts[c]._opened
    THEN /\ exc' = "TagAlreadyOpenedError"
         /\ UNCHANGED contexts
    ELSE LET a == DictGet(contexts[c]._attrs, class_)
             b == DictGet(contexts[c]._attrs, <<"c", "l", "a", "s", "s">>)
             existing_class == IF Truthy(a) THEN a ELSE b
         IN /\ contexts' = [contexts EXCEPT ![c]._attrs =
                   IF Truthy(existing_class)
                   THEN DictSet(@, class_, Str(PyStr(existing_class) \o <<" ">> \o class_name))
                   ELSE DictSet(@, class_, Str(class_name))]
            /\ UNCHANGED exc

\* an attr that takes  self._context_stack[0]  for the current context
attr_outermost(f, name, value) ==
    /\ exc = "none"
    /\ Budget
    /\ IF _context_stack[f] = <<>>
       THEN exc' = "NoTagContextError" /\ UNCHANGED contexts
       ELSE add_attr(_context_stack[f][1], name, value)
    /\ requested' = IF exc' = "none"
                     THEN [requested EXCEPT ![_context_stack[f][1]].sets =
                               Append(@, [op |-> "attr", k |-> name, v |-> value])]
                     ELSE requested
    /\ last' = Call("attr", f, 0, <<>>)
    /\ UNCHANGED <<_parts, _tag_stack, _context_stack, _ATTR_NAME_CACHE, scopes>>

\* Fragment.attr(name, value)
attr(f, name, value) ==
    /\ exc = "none"
    /\ Budget
    /\ IF _context_stack[f] = <<>>
       THEN exc' = "NoTagContextError" /\ UNCHANGED contexts
       ELSE add_attr(_context_stack[f][Len(_context_stack[f])], name, value)
    /\ requested' = IF exc' = "none"
                     THEN [requested EXCEPT ![_context_stack[f][Len(_context_stack[f])]].sets =
                               Append(@, [op |-> "attr", k |-> name, v |-> value])]
                     ELSE requested
    /\ last' = Call("attr", f, 0, <<>>)
    /\ UNCHANGED <<_parts, _tag_stack, _context_stack, _ATTR_NAME_CACHE, scopes>>

\* Fragment.classes(class_name)
classes(f, class_name) ==
    /\ exc = "none"
    /\ Budget
    /\ IF _context_stack[f] = <<>>
       THEN exc' = "NoTagContextError" /\ UNCHANGED contexts
       ELSE add_class(_context_stack[f][Len(_context_stack[f])], class_name)
    /\ requested' = IF exc' = "none"
                     THEN [requested EXCEPT ![_context_stack[f][Len(_context_stack[f])]].sets =
                               Append(@, [op |-> "classes", k |-> class_, v |-> Str(class_name)])]
                     ELSE requested
    /\ last' = Call("classes", f, 0, <<>>)
    /\ UNCHANGED <<_parts, _tag_stack, _context_stack, _ATTR_NAME_CACHE, scopes>>

\* Fragment.render() on the state h: the text, and whether it raised
render_of(h, f) ==
    IF h._tag_stack[f] # <<>> THEN [raised |-> TRUE, text |-> <<>>]
    ELSE [raised |-> FALSE, text |-> Join(h._parts[f])]

\* a render that discards the output when it raises
render_discards_on_error(f) ==
    /\ exc = "none"
    /\ Budget
    /\ LET r == render_of(State, f)
       IN /\ exc' = IF r.raised THEN "UnclosedTagsError" ELSE "none"
          /\ _parts' = IF r.raised THEN [_parts EXCEPT ![f] = <<>>] ELSE _parts
          /\ last' = Call("render", f, 0, r.text)
    /\ UNCHANGED <<_tag_stack, _context_stack, contexts, _ATTR_NAME_CACHE,
                   scopes, requested>>

\* a render that hands the output over: the parts are gone after the join
render_consumes(f) ==
    /\ exc = "none"
    /\ Budget
    /\ LET r == render_of(State, f)
       IN /\ exc' = IF r.raised THEN "UnclosedTagsError" ELSE "none"
          /\ _parts' = IF r.raised THEN _parts ELSE [_parts EXCEPT ![f] = <<>>]
          /\ last' = Call("render", f, 0, r.text)
    /\ UNCHANGED <<_tag_stack, _context_stack, contexts, _ATTR_NAME_CACHE,
                   scopes, requested>>

\* Fragment.render()
render(f) ==
    /\ exc = "none"
    /\ Budget
    /\ LET r == render_of(State, f)
       IN /\ exc' = IF r.raised THEN "UnclosedTagsError" ELSE "none"
          /\ last' = Call("render", f, 0, r.text)
    /\ UNCHANGED <<_parts, _tag_stack, _context_stack, contexts, _ATTR_NAME_CACHE,
                   scopes, requested>>

\* a clear that leaves the _tag_stack as it is
clear_keeps_tag_stack(f) ==
    /\ exc = "none"
    /\ Budget
    /\ _parts' = [_parts EXCEPT ![f] = <<>>]
    /\ _context_stack' = [_context_stack EXCEPT ![f] = <<>>]
    /\ last' = Call("clear", f, 0, <<>>)
    /\ UNCHANGED <<_tag_stack, contexts, _ATTR_NAME_CACHE, scopes, requested, exc>>

\* a clear that leaves the _context_stack as it is
clear_keeps_context_stack(f) ==
    /\ exc = "none"
    /\ Budget
    /\ _parts' = [_parts EXCEPT ![f] = <<>>]
    /\ _tag_stack' = [_tag_stack EXCEPT ![f] = <<>>]
    /\ last' = Call("clear", f, 0, <<>>)
    /\ UNCHANGED <<_context_stack, contexts, _ATTR_NAME_CACHE, scopes, requested, exc>>

\* Fragment.clear()
clear(f) ==
    /\ exc = "none"
    /\ Budget
    /\ _parts' = [_parts EXCEPT ![f] = <<>>]
    /\ _tag_stack' = [_tag_stack EXCEPT ![f] = <<>>]
    /\ _context_stack' = [_context_stack EXCEPT ![f] = <<>>]
    /\ last' = Call("clear", f, 0, <<>>)
    /\ UNCHANGED <<contexts, _ATTR_NAME_CACHE, scopes, requested, exc>>

\* a fragment that takes the parts of its argument away with the text
fragment_takes_parts(f, g) ==
    /\ exc = "none"
    /\ Budget
    /\ LET h1 == ensure_current_opened(State, f)
           r == render_of(h1, g)
       IN IF r.raised
          THEN Commit(h1) /\ exc' = "UnclosedTagsError"
          ELSE /\ Commit([h1 EXCEPT !._parts =
                             [x \in Fragments |->
                                 IF x = f THEN Append(h1._parts[f], r.text)
                                 ELSE IF x = g THEN <<>> ELSE h1._parts[x]]])
               /\ UNCHANGED exc
    /\ last' = Call("fragment", f, 0, <<>>)
    /\ UNCHANGED <<scopes, requested>>

\* Fragment.fragment(fragment): self is f, the argument is g
fragment(f, g) ==
    /\ exc = "none"
    /\ Budget
    /\ LET h1 == ensure_current_opened(State, f)
           r == render_of(h1, g)
       IN IF r.raised
          THEN Commit(h1) /\ exc' = "UnclosedTagsError"
          ELSE Commit([h1 EXCEPT !._parts[f] = Append(@, r.text)]) /\ UNCHANGED exc
    /\ last' = Call("fragment", f, 0, <<>>)
    /\ UNCHANGED <<scopes, requested>>

\* the caller's next step, on the fragments Fs, with the arguments of tag,
\* attr, classes and text/raw drawn from Tags, Attrs, Names and Conts
NextWith(Fs, Tags, Attrs, Names, Conts) ==
    \/ \E f \in Fs, i \in Tags : tag(f, i[1], i[2])
    \/ \E c \in 1..Len(contexts) : enter(c)
    \/ exit
    \/ unwind
    \/ except
    \/ \E f \in Fs, content \in Conts : text(f, content)
    \/ \E f \in Fs, content \in Conts : raw(f, content)
    \/ \E f \in Fs, i \in Attrs : attr(f, i[1], i[2])
    \/ \E f \in Fs, n \in Names : classes(f, n)
    \/ \E f \in Fs : render(f)
    \/ \E f \in Fs : clear(f)
    \/ \E f, g \in Fs : fragment(f, g)

\* the caller's next step, on the fragments Fs
NextOn(Fs) == NextWith(Fs, TagInputs, AttrInputs, ClassNames, Contents)

\* every call sequence on one fragment, which can also embed itself
Next == NextOn({1})

Spec == Init /\ [][Next]_vars

\* every call sequence on one fragment that writes through tag scopes and
\* text only: no raw content, no embedded fragment
NextScopes ==
    \/ \E i \in TagInputs : tag(1, i[1], i[2])
    \/ \E c \in 1..Len(contexts) : enter(c)
    \/ exit
    \/ unwind
    \/ except
    \/ \E content \in Contents : text(1, content)
    \/ \E i \in AttrInputs : attr(1, i[1], i[2])
    \/ render(1)
    \/ clear(1)

SpecScopes == Init /\ [][NextScopes]_vars

\* every call sequence on one fragment whose attributes are given under the
\* different spellings of one name
NextSpellings ==
    NextWith({1}, SpellingTagInputs, SpellingAttrInputs, ClassNames, {Str(<<"<">>)})

SpecSpellings == Init /\ [][NextSpellings]_vars

\* the arguments of the calls made on two fragments
TwoTagInputs == { <<div, <<>>>> }
TwoAttrInputs == { <<id, Str(<<"a">>)>> }
TwoContents == { Str(<<"<">>) }

\* every interleaving of the calls made on two fragments, each of which can
\* embed the other
NextTwo == NextWith(Fragments, TwoTagInputs, TwoAttrInputs, ClassNames, TwoContents)

SpecTwo == Init /\ [][NextTwo]_vars

\* ------------------------------------------------------------------------
\* Escaping of every short string
\* ------------------------------------------------------------------------
\* the characters html.escape replaces, a letter and the end of a reference
Alphabet == {"&", "<", ">", "\"", "'", "a", ";"}

\* every str of at most MaxLen characters
Strings == UNION {[1..n -> Alphabet] : n \in 0..MaxLen}

title == <<"t", "i", "t", "l", "e">>

\* one text, or one element with one attribute value, given as a keyword
\* attribute, through attr() or through classes(), and then more classes;
\* only calls that do not raise
NextEscape ==
    \/ \E s \in Strings : contexts = <<>> /\ _parts[1] = <<>> /\ text(1, Str(s))
    \/ \E s \in Strings : contexts = <<>> /\ _parts[1] = <<>> /\ raw(1, Str(s))
    \/ \E s \in Strings :
          contexts = <<>> /\ _parts[1] = <<>> /\ tag(1, div, <<Item(title, Str(s))>>)
    \/ contexts = <<>> /\ _parts[1] = <<>> /\ tag(1, div, <<>>)
    \/ \E c \in 1..Len(contexts) : scopes = <<>> /\ ~contexts[c]._opened /\ enter(c)
    \/ exit
    \/ \E s \in Strings :
          /\ _context_stack[1] # <<>>
          /\ contexts[_context_stack[1][1]]._attrs = <<>>
          /\ attr(1, title, Str(s))
    \/ \E s \in Strings :
          /\ _context_stack[1] # <<>>
          /\ contexts[_context_stack[1][1]]._attrs = <<>>
          /\ classes(1, s)
    \/ /\ _context_stack[1] # <<>>
       /\ HasKey(contexts[_context_stack[1][1]]._attrs, class_)
       /\ classes(1, <<"\"">>)
    \/ _tag_stack[1] = <<>> /\ render(1)

SpecEscape == Init /\ [][NextEscape]_vars

\* ------------------------------------------------------------------------
\* The name conversion on its own: a process that starts with an empty
\* cache calls _convert_attr_name on a name, then on names it returned or
\* on names it has converted before
\* ------------------------------------------------------------------------
\* a letter, the underscore and the hyphen
NameAlphabet == {"a", "_", "-"}

\* the names given first: every str of 1..MaxName characters, and the two
\* names the function treats specially
AttrNames ==
    UNION {[1..n -> NameAlphabet] : n \in 1..MaxName} \cup {class_, classes_alias}

\* one call _convert_attr_name(name); the call record keeps the argument
\* and the returned name
call_convert_attr_name(name) ==
    /\ exc = "none"
    /\ Budget
    /\ LET r == _convert_attr_name(_ATTR_NAME_CACHE, name)
       IN /\ _ATTR_NAME_CACHE' = r.cache
          /\ last' = Call("_convert_attr_name", 1, 0, <<name, r.name>>)
    /\ UNCHANGED <<_parts, _tag_stack, _context_stack, contexts, scopes, requested, exc>>

NextNames ==
    \/ \E n \in AttrNames : _ATTR_NAME_CACHE = <<>> /\ call_convert_attr_name(n)
    \/ /\ last.op = "_convert_attr_name"
       /\ last.ret[2] \notin DOMAIN _ATTR_NAME_CACHE
       /\ call_convert_attr_name(last.ret[2])
    \/ \E n \in DOMAIN _ATTR_NAME_CACHE : call_convert_attr_name(n)

SpecNames == Init /\ [][NextNames]_vars

\* ------------------------------------------------------------------------
\* A reset fragment beside a fresh one
\* ------------------------------------------------------------------------
\* Fragment 1 is used in any way and cleared; from then on every call is
\* made on fragment 1 and, with the same arguments, on fragment 2, which is
\* fresh. The calls are those of Fragment, as functions of the program state
\* h: the state they leave, the exception they raise and what they return.
Result(h, e, ret) == [h |-> h, exc |-> e, ret |-> ret]

\* the current context of fragment f in h, 0 when there is none
Current(h, f) ==
    LET stack == h._context_stack[f]
    IN IF stack = <<>> THEN 0 ELSE stack[Len(stack)]

\* Fragment.tag(tag_name, **attrs)
tag_on(h, f, tag_name, attrs) ==
    LET h1 == ensure_current_opened(h, f)
        context == NewTagContext(f, tag_name, attrs, Lower(tag_name) \in VoidElements)
    IN Result([h1 EXCEPT !.contexts = Append(@, context)], "none", <<>>)

\* Fragment.text(content)
text_on(h, f, content) ==
    IF content = None THEN Result(h, "none", <<>>)
    ELSE LET h1 == ensure_current_opened(h, f)
         IN Result([h1 EXCEPT !._parts[f] = Append(@, _escape_text(content))], "none", <<>>)

\* Fragment.raw(content)
raw_on(h, f, content) ==
    IF content = None THEN Result(h, "none", <<>>)
    ELSE LET h1 == ensure_current_opened(h, f)
         IN Result([h1 EXCEPT !._parts[f] = Append(@, PyStr(content))], "none", <<>>)

\* Fragment.attr(name, value) with _TagContext.add_attr
attr_on(h, f, name, value) ==
    LET c == Current(h, f)
    IN IF c = 0 THEN Result(h, "NoTagContextError", <<>>)
       ELSE IF h.contexts[c]._opened THEN Result(h, "TagAlreadyOpenedError", <<>>)
       ELSE Result([h EXCEPT !.contexts[c]._attrs = DictSet(@, name, value)], "none", <<>>)

\* Fragment.classes(class_name) with _TagContext.add_class
classes_on(h, f, class_name) ==
    LET c == Current(h, f)
    IN IF c = 0 THEN Result(h, "NoTagContextError", <<>>)
       ELSE IF h.contexts[c]._opened THEN Result(h, "TagAlreadyOpenedError", <<>>)
       ELSE LET a == DictGet(h.contexts[c]._attrs, class_)
                b == DictGet(h.contexts[c]._attrs, class)
                existing_class == IF Truthy(a) THEN a ELSE b
                value == IF Truthy(existing_class)
                         THEN Str(PyStr(existing_class) \o <<" ">> \o class_name)
                         ELSE Str(class_name)
            IN Result([h EXCEPT !.contexts[c]._attrs = DictSet(@, class_, value)], "none", <<>>)

\* Fragment.render()
render_on(h, f) ==
    LET r == render_of(h, f)
    IN Result(h, IF r.raised THEN "UnclosedTagsError" ELSE "none", r.text)

\* Fragment.clear()
clear_on(h, f) ==
    Result([h EXCEPT !._parts[f] = <<>>, !._tag_stack[f] = <<>>,
                     !._context_stack[f] = <<>>], "none", <<>>)

\* Fragment.fragment(fragment): self is f, the argument is g
fragment_on(h, f, g) ==
    LET h1 == ensure_current_opened(h, f)
        r == render_of(h1, g)
    IN IF r.raised THEN Result(h1, "UnclosedTagsError", <<>>)
       ELSE Result([h1 EXCEPT !._parts[f] = Append(@, r.text)], "none", <<>>)

\* with context: ... is entered
enter_on(h, c) == Result(__enter__(h, c), "none", <<>>)

\* the with-block of context c is left
exit_on(h, c) ==
    LET r == __exit__(h, c)
    IN Result(r.h, IF r.raised THEN "IndexError" ELSE "none", <<>>)

\* tag(tag_name, **attrs) and attr(name, value) of the calls made before and
\* after the reset
ResetTagInputs == { <<div, <<>>>>, <<br, <<Item(id, Str(<<"a">>))>>>> }
ResetAttrInputs == { <<id, Str(<<"&">>)>> }

\* fragment 1 was cleared and no call was made on it alone since
Replaying == exc = "none" /\ last.op \in {"clear", "both"}

\* context c is a context of fragment 1 requested after the reset: the next
\* context is its twin on fragment 2
Twin(c) == c + 1 <= Len(contexts) /\ contexts[c + 1]._fragment = 2

\* one call made on fragment 1 (r1, from the current state) and then on
\* fragment 2 (r2, from the state r1 leaves); the caller catches what either
\* raises, and both outcomes are kept
Both(r1, r2) ==
    /\ Commit(r2.h)
    /\ exc' = "none"
    /\ last' = [op |-> "both", f |-> 2, c |-> 0, twice |-> FALSE,
                ret |-> <<[exc |-> r1.exc, ret |-> r1.ret],
                          [exc |-> r2.exc, ret |-> r2.ret]>>]

\* the record of a call of attr() or classes() on the current contexts of
\* both fragments, where it succeeded
Noted(r1, r2, e) ==
    LET req1 == IF r1.exc = "none"
                THEN [requested EXCEPT ![Current(State, 1)].sets = Append(@, e)]
                ELSE requested
    IN IF r2.exc = "none"
       THEN [req1 EXCEPT ![Current(State, 2)].sets = Append(@, e)]
       ELSE req1

both_tag(tag_name, attrs) ==
    /\ Replaying
    /\ Budget
    /\ Cardinality({c \in 1..Len(contexts) : contexts[c]._fragment = 1}) < MaxContexts
    /\ LET r1 == tag_on(State, 1, tag_name, attrs)
       IN Both(r1, tag_on(r1.h, 2, tag_name, attrs))
    /\ requested' = requested \o << [attrs |-> attrs, sets |-> <<>>],
                                    [attrs |-> attrs, sets |-> <<>>] >>
    /\ UNCHANGED scopes

both_enter(c) ==
    /\ Replaying
    /\ Budget
    /\ Twin(c)
    /\ Len(scopes) < MaxDepth
    /\ LET r1 == enter_on(State, c)
       IN Both(r1, enter_on(r1.h, c + 1))
    /\ scopes' = Append(scopes, [c |-> c, depth |-> Len(_context_stack[1])])
    /\ UNCHANGED requested

both_exit ==
    /\ Replaying
    /\ scopes # <<>>
    /\ Twin(scopes[Len(scopes)].c)
    /\ LET c == scopes[Len(scopes)].c
           r1 == exit_on(State, c)
       IN Both(r1, exit_on(r1.h, c + 1))
    /\ scopes' = Pop(scopes)
    /\ UNCHANGED <<requested, calls>>

both_text(content) ==
    /\ Replaying
    /\ Budget
    /\ LET r1 == text_on(State, 1, content)
       IN Both(r1, text_on(r1.h, 2, content))
    /\ UNCHANGED <<scopes, requested>>

both_raw(content) ==
    /\ Replaying
    /\ Budget
    /\ LET r1 == raw_on(State, 1, content)
       IN Both(r1, raw_on(r1.h, 2, content))
    /\ UNCHANGED <<scopes, requested>>

both_attr(name, value) ==
    /\ Replaying
    /\ Budget
    /\ LET r1 == attr_on(State, 1, name, value)
           r2 == attr_on(r1.h, 2, name, value)
       IN /\ Both(r1, r2)
          /\ requested' = Noted(r1, r2, [op |-> "attr", k |-> name, v |-> value])
    /\ UNCHANGED scopes

both_classes(class_name) ==
    /\ Replaying
    /\ Budget
    /\ LET r1 == classes_on(State, 1, class_name)
           r2 == classes_on(r1.h, 2, class_name)
       IN /\ Both(r1, r2)
          /\ requested' = Noted(r1, r2, [op |-> "classes", k |-> class_, v |-> Str(class_name)])
    /\ UNCHANGED scopes

both_render ==
    /\ Replaying
    /\ Budget
    /\ LET r1 == render_on(State, 1)
       IN Both(r1, render_on(r1.h, 2))
    /\ UNCHANGED <<scopes, requested>>

both_clear ==
    /\ Replaying
    /\ Budget
    /\ LET r1 == clear_on(State, 1)
       IN Both(r1, clear_on(r1.h, 2))
    /\ UNCHANGED <<scopes, requested>>

\* each fragment embeds itself
both_fragment ==
    /\ Replaying
    /\ Budget
    /\ LET r1 == fragment_on(State, 1, 1)
       IN Both(r1, fragment_on(r1.h, 2, 2))
    /\ UNCHANGED <<scopes, requested>>

\* calls on fragment 1 alone until the reset; after it, calls on both
NextReset ==
    \/ /\ last.op # "both"
       /\ NextWith({1}, ResetTagInputs, ResetAttrInputs, ClassNames, {Str(<<"<">>)})
    \/ \E i \in ResetTagInputs : both_tag(i[1], i[2])
    \/ \E c \in 1..Len(contexts) : both_enter(c)
    \/ both_exit
    \/ \E content \in Contents : both_text(content)
    \/ \E content \in Contents : both_raw(content)
    \/ \E i \in ResetAttrInputs : both_attr(i[1], i[2])
    \/ \E n \in ClassNames : both_classes(n)
    \/ both_render
    \/ both_clear
    \/ both_fragment

SpecReset == Init /\ [][NextReset]_vars

\* ------------------------------------------------------------------------
\* Vocabulary of the properties
\* ------------------------------------------------------------------------
Program == <<_parts, _tag_stack, _context_stack, contexts, _ATTR_NAME_CACHE>>

\* this step is a call of the operation op
IsCall(op) == last'.op = op /\ calls' = calls + 1

\* this step is a call of attr or classes
IsAttrCall == IsCall("attr") \/ IsCall("classes")

\* this step leaves the innermost with-block (normally or unwinding)
IsExit == last'.op = "__exit__" /\ Len(scopes') < Len(scopes)

\* this step writes the opening tag of context c
Materializes(c) == ~contexts[c]._opened /\ contexts'[c]._opened

\* the chunk a step that materializes c appends for it
OpeningChunk(c) ==
    LET f == contexts[c]._fragment IN _parts'[f][Len(_parts[f]) + 1]

ClosingTag(name) == <<"<", "/">> \o name \o <<">">>

\* needle occurs in hay
Contains(hay, needle) ==
    \E i \in 0..(Len(hay) - Len(needle)) : SubSeq(hay, i + 1, i + Len(needle)) = needle

\* one attribute of an opening tag:  name="escaped value"  after a space
AttrText(k, v) ==
    <<" ">> \o convert_uncached(k) \o <<"=", "\"">> \o html_escape(PyStr(v), TRUE) \o <<"\"">>

RECURSIVE AttrsText(_)
\* the attributes with a non-null value, in order, each after a space
AttrsText(items) ==
    IF items = <<>> THEN <<>>
    ELSE (IF Head(items).v = None THEN <<>> ELSE AttrText(Head(items).k, Head(items).v))
         \o AttrsText(Tail(items))

\* the opening-tag grammar:  <name  attr="value"...  >  or  />
Grammar(tag_name, items, void) ==
    <<"<">> \o tag_name \o AttrsText(items) \o (IF void THEN <<" ", "/", ">">> ELSE <<">">>)

\* the opening tag as written: the grammar, with one more space when there
\* are attributes and all of them are null
OpeningText(tag_name, items, void) ==
    <<"<">> \o tag_name
        \o (IF items # <<>> /\ \A i \in 1..Len(items) : items[i].v = None
            THEN <<" ">> ELSE AttrsText(items))
        \o (IF void THEN <<" ", "/", ">">> ELSE <<">">>)

\* an attribute map with k set to v: a key already present takes the new
\* value in its place, a new key comes after the others
PutItem(items, k, v) ==
    IF \E i \in 1..Len(items) : items[i].k = k
    THEN [i \in 1..Len(items) |-> IF items[i].k = k THEN Item(k, v) ELSE items[i]]
    ELSE items \o <<Item(k, v)>>

\* the class value a class token is appended to: that of class_, else of class
ClassValue(items) ==
    LET at(k) == IF \E i \in 1..Len(items) : items[i].k = k
                 THEN (CHOOSE e \in {items[i] : i \in 1..Len(items)} : e.k = k).v
                 ELSE None
    IN IF Truthy(at(class_)) THEN at(class_) ELSE at(<<"c", "l", "a", "s", "s">>)

RECURSIVE Applied(_, _)
\* the initial attributes with the attr() and classes() calls applied in
\* call order
Applied(items, sets) ==
    IF sets = <<>> THEN items
    ELSE LET e == Head(sets)
             old == ClassValue(items)
             next == IF e.op = "attr" THEN PutItem(items, e.k, e.v)
                     ELSE IF Truthy(old)
                          THEN PutItem(items, class_, Str(PyStr(old) \o <<" ">> \o PyStr(e.v)))
                          ELSE PutItem(items, class_, e.v)
         IN Applied(next, Tail(sets))

\* the number of places where needle occurs in hay
Occurrences(hay, needle) ==
    Cardinality({i \in 0..(Len(hay) - Len(needle)) :
                    SubSeq(hay, i + 1, i + Len(needle)) = needle})

\* the start of an attribute named name in an opening tag:  name="  after a
\* space (an escaped value holds no double quote, so it cannot contain one)
AttrStart(name) == <<" ">> \o name \o <<"=", "\"">>

\* the spellings of the class attribute
ClassSpellings == {class, class_, classes_alias}

\* the class value among the initial attributes, under any spelling
InitialClass(items) ==
    IF \E i \in 1..Len(items) : items[i].k \in ClassSpellings
    THEN items[CHOOSE i \in 1..Len(items) : items[i].k \in ClassSpellings].v
    ELSE None

RECURSIVE ClassList(_, _)
\* the class value after the tokens of the classes() calls in sets are
\* appended to value, each after one space
ClassList(value, sets) ==
    IF sets = <<>> THEN value
    ELSE ClassList(IF Truthy(value)
                   THEN Str(PyStr(value) \o <<" ">> \o PyStr(Head(sets).v))
                   ELSE Head(sets).v,
                   Tail(sets))

\* the character reference of a character of text content
TextReference(ch) ==
    CASE ch = "&" -> <<"&", "a", "m", "p", ";">>
      [] ch = "<" -> <<"&", "l", "t", ";">>
      [] ch = ">" -> <<"&", "g", "t", ";">>
      [] OTHER -> <<ch>>

\* the character reference of a character of an attribute value
ValueReference(ch) ==
    CASE ch = "\"" -> <<"&", "q", "u", "o", "t", ";">>
      [] ch = "'" -> <<"&", "#", "x", "2", "7", ";">>
      [] OTHER -> TextReference(ch)

\* s with every character replaced by its reference, in one pass
EscapedText(s) == Join([i \in 1..Len(s) |-> TextReference(s[i])])
EscapedValue(s) == Join([i \in 1..Len(s) |-> ValueReference(s[i])])

\* the context of fragment f that a forcing call materializes: the top of
\* its _context_stack when that is still pending, 0 when there is none
PendingTop(f) ==
    LET stack == _context_stack[f]
    IN IF stack # <<>> /\ ~contexts[stack[Len(stack)]]._opened
       THEN stack[Len(stack)] ELSE 0

\* a forcing call on fragment f: the pending current context, if any, gets
\* its opening tag, then exactly the chunk is appended; the stacks, the other
\* contexts and the other fragments are as before
ForcesThenAppends(f, chunk) ==
    LET top == PendingTop(f)
        n == Len(_parts[f])
    IN /\ UNCHANGED <<_tag_stack, _context_stack>>
       /\ \A g \in Fragments \ {f} : _parts'[g] = _parts[g]
       /\ Len(_parts'[f]) = n + (IF top # 0 THEN 2 ELSE 1)
       /\ SubSeq(_parts'[f], 1, n) = _parts[f]
       /\ _parts'[f][Len(_parts'[f])] = chunk
       /\ top # 0 =>
             /\ contexts'[top] = [contexts[top] EXCEPT !._opened = TRUE]
             /\ _parts'[f][n + 1] = OpeningText(contexts[top]._tag_name,
                                                contexts[top]._attrs,
                                                contexts[top]._self_closing)
       /\ \A c \in 1..Len(contexts) : c # top => contexts'[c] = contexts[c]
       /\ Len(contexts') = Len(contexts)

\* ------------------------------------------------------------------------
\* Properties
\* ------------------------------------------------------------------------

\* C1 (as claimed): parent before child. In every reachable state, if a
\* context on a fragment's _context_stack has been opened, then every context
\* beneath it on that stack has been opened too.
C1_ParentBeforeChild ==
    \A f \in Fragments :
        \A i, j \in 1..Len(_context_stack[f]) :
            (i < j /\ contexts[_context_stack[f][j]]._opened)
                => contexts[_context_stack[f][i]]._opened

\* C2 (as claimed): every attribute set with attr() or classes() on a
\* context before its opening tag is written appears in that opening tag: the
\* tag holds an attribute of every name attr() set and every token classes()
\* appended.
C2_EverySetAttributeAppears ==
    [][\A c \in 1..Len(contexts) :
          Materializes(c) =>
              \A i \in 1..Len(requested[c].sets) :
                  LET e == requested[c].sets[i]
                  IN IF e.op = "attr"
                     THEN Contains(OpeningChunk(c),
                                   <<" ">> \o convert_uncached(e.k) \o <<"=", "\"">>)
                     ELSE Contains(OpeningChunk(c), PyStr(e.v))]_vars

\* C2 (amended): lazy attribute ordering. When the opening tag of a context
\* is written it is the tag of the initial attributes with every attr() and
\* classes() call made on the context applied in call order: a new key comes
\* after the attributes already present, a key already present takes the new
\* value in its place, a class token is appended to the class value, and an
\* attribute whose final value is None is left out. A call of attr() or
\* classes() never writes to the output, and none reaches a context once its
\* opening tag is written.
C2_LazyAttributeOrdering ==
    [][/\ \A c \in 1..Len(contexts) :
            Materializes(c) =>
                OpeningChunk(c) =
                    OpeningText(contexts[c]._tag_name,
                                Applied(requested[c].attrs, requested[c].sets),
                                contexts[c]._self_closing)
       /\ IsAttrCall => _parts' = _parts
       /\ \A c \in 1..Len(contexts) :
            contexts[c]._opened => requested'[c] = requested[c]]_vars

\* C2 witness: an opened context with an initial attribute and two later
\* attr()/classes() calls
C2_Witness ==
    \E c \in 1..Len(contexts) :
        /\ contexts[c]._opened
        /\ requested[c].attrs # <<>>
        /\ Len(requested[c].sets) >= 2

\* C3 (as claimed): every opened tag is closed exactly once, in LIFO order.
\* Every step that leaves the with-block of a non-self-closing context
\* completes without raising from __exit__ and appends exactly one closing
\* tag, after the opening tag if that was still pending, and the tag closed
\* is that of the innermost scope entered and not yet left.
C3_ClosedOnceLIFO ==
    [][IsExit =>
          LET c == scopes[Len(scopes)].c
              f == contexts[c]._fragment
          IN ~contexts[c]._self_closing =>
                /\ exc' # "IndexError"
                /\ Len(_parts'[f]) = Len(_parts[f]) + (IF contexts[c]._opened THEN 1 ELSE 2)
                /\ SubSeq(_parts'[f], 1, Len(_parts[f])) = _parts[f]
                /\ _parts'[f][Len(_parts'[f])] = ClosingTag(contexts[c]._tag_name)]_vars

C5_FailureChangesNothing ==
    [][(IsAttrCall /\ exc' = "TagAlreadyOpenedError") => UNCHANGED Program]_vars

\* C5 witness: classes() has just failed on an opened context that has
\* attributes
C5_Witness ==
    /\ exc = "TagAlreadyOpenedError"
    /\ last.op = "classes"
    /\ LET stack == _context_stack[last.f]
       IN stack # <<>> /\ contexts[stack[Len(stack)]]._attrs # <<>>

C7_FailsIffScopeEntered ==
    [][\A f \in Fragments :
          (IsCall("render") /\ last'.f = f) =>
              ((exc' = "UnclosedTagsError")
                  <=> (\E i \in 1..Len(scopes) :
                          /\ contexts[scopes[i].c]._fragment = f
                          /\ ~contexts[scopes[i].c]._self_closing))]_vars

\* C7 (amended): render() fails with UnclosedTagsError exactly when the
\* fragment's _tag_stack is non-empty, and succeeds otherwise; failed or
\* not, it leaves the output, both stacks and every context as they were.
C7_FailsIffTagStackNonEmpty ==
    [][\A f \in Fragments :
          (IsCall("render") /\ last'.f = f) =>
              /\ (exc' = "UnclosedTagsError") <=> (_tag_stack[f] # <<>>)
              /\ exc' \in {"none", "UnclosedTagsError"}
              /\ UNCHANGED Program]_vars

\* C7 witness: render() has just failed on a fragment that holds output
C7_Witness ==
    /\ exc = "UnclosedTagsError"
    /\ last.op = "render"
    /\ _parts[last.f] # <<>>

\* C8: render() is pure and idempotent. A successful render() changes no
\* part of the program state and returns the concatenation of the chunks in
\* append order; a render() directly after a successful render() of the same
\* fragment returns the same text.
C8_RenderPure ==
    [][\A f \in Fragments :
          (IsCall("render") /\ last'.f = f /\ exc' = "none") =>
              /\ UNCHANGED Program
              /\ last'.ret = Join(_parts[f])
              /\ (last.op = "render" /\ last.f = f) => last'.ret = last.ret]_vars

\* C8 witness: the second of two successful render() calls in a row, on an
\* output of several chunks
C8_Witness ==
    /\ last.op = "render"
    /\ last.twice
    /\ exc = "none"
    /\ Len(_parts[last.f]) >= 2
    /\ last.ret # <<>>

\* C9 (as claimed): scope exit runs on every exit path. When an exception
\* propagates out of the with-block of a non-self-closing context, the
\* context is opened, exactly one closing tag is appended, both stacks are
\* back at the depth they had when the scope was entered, and the same
\* exception goes on to the caller.
C9_ExitOnErrorPath ==
    [][(IsExit /\ exc # "none") =>
          LET c == scopes[Len(scopes)].c
              f == contexts[c]._fragment
              depth == scopes[Len(scopes)].depth
          IN ~contexts[c]._self_closing =>
                /\ exc' = exc
                /\ contexts'[c]._opened
                /\ Len(_parts'[f]) = Len(_parts[f]) + (IF contexts[c]._opened THEN 1 ELSE 2)
                /\ _parts'[f][Len(_parts'[f])] = ClosingTag(contexts[c]._tag_name)
                /\ Len(_tag_stack'[f]) = depth
                /\ Len(_context_stack'[f]) = depth]_vars

\* C10 (as claimed): the opening tag follows the grammar. The chunk written
\* for a context is  <name , one  attr="escaped value"  per attribute whose
\* value is not None, in insertion order, and  >  (or  />  for a void element),
\* so that attributes that are all None leave  <name>.
C10_OpeningTagGrammar ==
    [][\A c \in 1..Len(contexts) :
          Materializes(c) =>
              OpeningChunk(c) = Grammar(contexts[c]._tag_name, contexts[c]._attrs,
                                        contexts[c]._self_closing)]_vars

\* C10 (amended): the chunk written for a context follows the grammar when
\* it has no attribute or an attribute that is not None; with attributes that
\* are all None it is  <name >  ( <name  />  for a void element): the name,
\* one space and the closing.
C10_OpeningTagAsWritten ==
    [][\A c \in 1..Len(contexts) :
          Materializes(c) =>
              OpeningChunk(c) = OpeningText(contexts[c]._tag_name, contexts[c]._attrs,
                                            contexts[c]._self_closing)]_vars

\* C10 witness: an opened context whose attributes are all None, and an
\* opened context with an attribute that is not None
C10_Witness ==
    /\ \E c \in 1..Len(contexts) :
          /\ contexts[c]._opened
          /\ contexts[c]._attrs # <<>>
          /\ \A i \in 1..Len(contexts[c]._attrs) : contexts[c]._attrs[i].v = None
    /\ \E c \in 1..Len(contexts) :
          /\ contexts[c]._opened
          /\ \E i \in 1..Len(contexts[c]._attrs) : contexts[c]._attrs[i].v # None

\* C11 (as claimed): an attribute is stored under its normalized name. When
\* the opening tag of a context that only attr() calls reached is written,
\* no normalized name set on the context (as a keyword attribute or through
\* attr(), under any spelling) starts more than one attribute of the tag,
\* and the value of the last attr() call is the value the tag holds.
C11_StoredUnderNormalizedName ==
    [][\A c \in 1..Len(contexts) :
          (/\ Materializes(c)
           /\ \A i \in 1..Len(requested[c].sets) : requested[c].sets[i].op = "attr")
          => LET sets == requested[c].sets
                 keys == {requested[c].attrs[i].k : i \in 1..Len(requested[c].attrs)}
                            \cup {sets[i].k : i \in 1..Len(sets)}
             IN /\ \A k \in keys :
                      Occurrences(OpeningChunk(c), AttrStart(convert_uncached(k))) <= 1
                /\ (sets # <<>> /\ sets[Len(sets)].v # None)
                      => Contains(OpeningChunk(c),
                                  AttrText(sets[Len(sets)].k, sets[Len(sets)].v))]_vars

\* C12 (as claimed): classes() appends to the class value, whatever the
\* spelling it was set under. When the opening tag of a context that
\* classes() reached is written, it holds exactly one class attribute; when
\* only classes() calls reached the context, the value of that attribute is
\* the initial class value (given as class, class_ or classes) followed by
\* the appended tokens in call order, each after one space.
C12_SingleClassAttribute ==
    [][\A c \in 1..Len(contexts) :
          (/\ Materializes(c)
           /\ \E i \in 1..Len(requested[c].sets) : requested[c].sets[i].op = "classes")
          => /\ Occurrences(OpeningChunk(c), AttrStart(class)) = 1
             /\ (\A i \in 1..Len(requested[c].sets) : requested[c].sets[i].op = "classes")
                   => Contains(OpeningChunk(c),
                               AttrText(class, ClassList(InitialClass(requested[c].attrs),
                                                         requested[c].sets))
                                 \o <<">">>)]_vars

\* C13 (as claimed): self-closing elements. For a context whose tag name,
\* lowered, is a void element: entering its scope leaves both stacks as they
\* were and, the first time, appends one chunk that ends in  " />" ; leaving
\* its scope changes nothing, so no closing tag is written. For a context of
\* any other name, leaving its scope completes and appends its closing tag.
C13_SelfClosingElements ==
    [][/\ \A c \in 1..Len(contexts) :
            (IsCall("__enter__") /\ last'.c = c /\ Lower(contexts[c]._tag_name) \in VoidElements)
            => LET f == contexts[c]._fragment
               IN /\ UNCHANGED <<_tag_stack, _context_stack>>
                  /\ IF contexts[c]._opened THEN UNCHANGED _parts
                     ELSE /\ Len(_parts'[f]) = Len(_parts[f]) + 1
                          /\ SubSeq(_parts'[f], 1, Len(_parts[f])) = _parts[f]
                          /\ LET chunk == OpeningChunk(c)
                             IN /\ Len(chunk) >= 3
                                /\ SubSeq(chunk, Len(chunk) - 2, Len(chunk)) = <<" ", "/", ">">>
       /\ IsExit =>
            LET c == scopes[Len(scopes)].c
                f == contexts[c]._fragment
            IN IF Lower(contexts[c]._tag_name) \in VoidElements
               THEN UNCHANGED Program
               ELSE /\ exc' # "IndexError"
                    /\ _parts'[f] # <<>>
                    /\ _parts'[f][Len(_parts'[f])] = ClosingTag(contexts[c]._tag_name)]_vars

\* C14: text() and raw() with None are no-ops: the output, both stacks and
\* every context are as before, so the current context is still pending and
\* an attr() that follows on it succeeds. With any other content they first
\* write the opening tag of the current context if that is pending, then
\* append exactly one chunk: the content with & < > replaced by their
\* references for text(), the content as given for raw().
C14_NullContentIsNoOp ==
    [][\A f \in Fragments :
          /\ \A content \in Contents :
                /\ text(f, content) =>
                      IF content = None THEN UNCHANGED Program
                      ELSE ForcesThenAppends(f, EscapedText(PyStr(content)))
                /\ raw(f, content) =>
                      IF content = None THEN UNCHANGED Program
                      ELSE ForcesThenAppends(f, PyStr(content))
          /\ (/\ IsCall("attr")
              /\ last'.f = f
              /\ last.op \in {"text", "raw"}
              /\ PendingTop(f) # 0)
             => /\ exc' = "none"
                /\ contexts'[PendingTop(f)]._attrs # <<>>]_vars

\* C14 witness: text() or raw() has just been called with None inside a
\* scope whose context is still pending, on a fragment that already holds
\* the chunk of an escaped text and a chunk of raw content
C14_Witness ==
    /\ last.op \in {"text", "raw"}
    /\ exc = "none"
    /\ PendingTop(last.f) # 0
    /\ \E i \in 1..Len(_parts[last.f]) : _parts[last.f][i] = <<"&", "l", "t", ";">>
    /\ \E i \in 1..Len(_parts[last.f]) : _parts[last.f][i] = <<"<">>

\* C15: fragment() of another fragment that has no unclosed tag first writes
\* the opening tag of the host's current context if that is pending, then
\* appends exactly the other's render() as one chunk, unescaped, and does not
\* raise. It leaves the other's output and stacks and every context of the
\* other unchanged, so a render() of the other gives the same text as before.
C15_EmbedAppendsRender ==
    [][\A f, g \in Fragments :
          (f # g /\ fragment(f, g) /\ _tag_stack[g] = <<>>) =>
              /\ exc' = "none"
              /\ ForcesThenAppends(f, Join(_parts[g]))
              /\ _parts'[g] = _parts[g]
              /\ _tag_stack'[g] = _tag_stack[g]
              /\ _context_stack'[g] = _context_stack[g]
              /\ render_of(State', g) = render_of(State, g)]_vars

\* C15 witness: a fragment whose output holds several chunks has just been
\* embedded in the other fragment, inside a scope whose opening tag the call
\* has written before the embedded text
C15_Witness ==
    \E f, g \in Fragments :
        /\ f # g
        /\ last.op = "fragment" /\ last.f = f /\ exc = "none"
        /\ Len(_parts[g]) >= 2
        /\ _tag_stack[g] = <<>>
        /\ Len(_parts[f]) = 2
        /\ _parts[f][1] = <<"<", "d", "i", "v", ">">>
        /\ _parts[f][2] = Join(_parts[g])
        /\ _context_stack[f] # <<>>

\* the contexts c and d differ in their fragment only
SameContext(c, d) ==
    [contexts[c] EXCEPT !._fragment = 0] = [contexts[d] EXCEPT !._fragment = 0]

\* fragment 1 and the fresh fragment 2 cannot be told apart: the same
\* output, the same open tag names, twin contexts on the context stacks, every
\* context requested since the reset equal to its twin, and the same outcome
\* (exception raised, text returned) of the last call made on both
SameAsFresh ==
    /\ _parts[1] = _parts[2]
    /\ _tag_stack[1] = _tag_stack[2]
    /\ Len(_context_stack[1]) = Len(_context_stack[2])
    /\ \A i \in 1..Len(_context_stack[1]) :
          _context_stack[2][i] = _context_stack[1][i] + 1
    /\ \A d \in 1..Len(contexts) : contexts[d]._fragment = 2 => SameContext(d - 1, d)
    /\ last.op = "both" => last.ret[1] = last.ret[2]

ViewOf(h, f) ==
    [_parts |-> h._parts[f], _tag_stack |-> h._tag_stack[f],
     _context_stack |-> h._context_stack[f],
     contexts |-> [c \in {d \in 1..Len(h.contexts) : h.contexts[d]._fragment = f}
                     |-> h.contexts[c]]]

\* the attribute names the program has met so far
KnownNames ==
    (DOMAIN _ATTR_NAME_CACHE)
        \cup UNION {{contexts[c]._attrs[i].k : i \in 1..Len(contexts[c]._attrs)} :
                       c \in 1..Len(contexts)}

\* the memo tables another thread can have left, at any moment: the
\* conversions of any of the names
MemoTables == {[n \in D |-> convert_uncached(n)] : D \in SUBSET KnownNames}

RECURSIVE Blanked(_, _)
\* the contexts cs with those of fragment g blank
Blanked(cs, g) ==
    IF cs = <<>> THEN <<>>
    ELSE << IF Head(cs)._fragment = g THEN NewTagContext(g, <<>>, <<>>, FALSE)
            ELSE Head(cs) >> \o Blanked(Tail(cs), g)

\* the program state with nothing of fragment g in it (g is fresh and its
\* contexts are blank) and with the memo table K
Without(g, K) ==
    [State EXCEPT !._parts[g] = <<>>, !._tag_stack[g] = <<>>, !._context_stack[g] = <<>>,
                  !.contexts = Blanked(contexts, g),
                  !.cache = K]

\* this step does to fragment f, raises and returns what the result r does
AsAlone(f, r) ==
    /\ ViewOf(State', f) = ViewOf(r.h, f)
    /\ exc' = r.exc
    /\ last'.ret = r.ret

\* C17: fragments share no state. A step that is not a call on fragment g
\* leaves the output, the stacks and the contexts of g unchanged; and what a
\* call on fragment f does to f, raises and returns is what the same call
\* does when the other fragment is fresh, whatever the shared memo table
\* _ATTR_NAME_CACHE holds at that moment (another thread can have stored any
\* of its entries, or none). The memo table only ever holds the conversion
\* of each name. Excepted: fragment(f, g) reads the fragment g it is given.
C17_NoSharedState ==
    [][/\ \A g \in Fragments : last'.f # g => ViewOf(State', g) = ViewOf(State, g)
       /\ _ATTR_NAME_CACHE' \in MemoTables'
       /\ \A f \in Fragments : \A g \in Fragments \ {f} : \A K \in MemoTables :
            LET h == Without(g, K)
            IN /\ (last'.op = "tag" /\ last'.f = f) =>
                     \A i \in TwoTagInputs :
                        tag(f, i[1], i[2]) => AsAlone(f, tag_on(h, f, i[1], i[2]))
               /\ (last'.op = "text" /\ last'.f = f) =>
                     \A content \in TwoContents :
                        text(f, content) => AsAlone(f, text_on(h, f, content))
               /\ (last'.op = "raw" /\ last'.f = f) =>
                     \A content \in TwoContents :
                        raw(f, content) => AsAlone(f, raw_on(h, f, content))
               /\ (last'.op = "attr" /\ last'.f = f) =>
                     \A i \in TwoAttrInputs :
                        attr(f, i[1], i[2]) => AsAlone(f, attr_on(h, f, i[1], i[2]))
               /\ (last'.op = "classes" /\ last'.f = f) =>
                     \A n \in ClassNames :
                        classes(f, n) => AsAlone(f, classes_on(h, f, n))
               /\ (last'.op = "render" /\ last'.f = f /\ calls' # calls) =>
                     AsAlone(f, render_on(h, f))
               /\ (last'.op = "clear" /\ last'.f = f) => AsAlone(f, clear_on(h, f))
               /\ (last'.op = "fragment" /\ last'.f = f /\ fragment(f, f)) =>
                     AsAlone(f, fragment_on(h, f, f))
               /\ (last'.op = "__enter__" /\ last'.f = f) =>
                     AsAlone(f, enter_on(h, last'.c))
               /\ (last'.op = "__exit__" /\ last'.f = f /\ exc = "none") =>
                     AsAlone(f, exit_on(h, last'.c))
               /\ (last'.op = "__exit__" /\ last'.f = f /\ exc # "none") =>
                     /\ ViewOf(State', f) = ViewOf(exit_on(h, last'.c).h, f)
                     /\ exc' \in {exc, exit_on(h, last'.c).exc}]_vars

\* C17 witness: both fragments hold output, one of them inside an entered
\* scope, the memo table holds an entry, and the last call was made on the
\* other fragment
C17_Witness ==
    \E f \in Fragments : \E g \in Fragments \ {f} :
        /\ _parts[f] # <<>>
        /\ _parts[g] # <<>>
        /\ _context_stack[f] # <<>>
        /\ DOMAIN _ATTR_NAME_CACHE # {}
        /\ last.f = g

RECURSIVE EscapedAttrs(_)
\* the attributes with a non-null value, in order: a space, the converted
\* name and the value with its characters replaced by their references,
\* between double quotes
EscapedAttrs(items) ==
    IF items = <<>> THEN <<>>
    ELSE (IF Head(items).v = None THEN <<>>
          ELSE <<" ">> \o convert_uncached(Head(items).k) \o <<"=", "\"">>
                  \o EscapedValue(PyStr(Head(items).v)) \o <<"\"">>)
         \o EscapedAttrs(Tail(items))

\* C18: text escaping. For every str content of at most MaxLen characters,
\* the chunk text() appends is the content with each "&", "<" and ">"
\* replaced, once, by its character reference and every other character,
\* the two quotes among them, as it was: the chunk holds no "<" and no ">"
\* and as many quotes as the content.
C18_TextEscaping ==
    [][IsCall("text") =>
          \A s \in Strings :
              text(1, Str(s)) =>
                  LET chunk == _parts'[1][Len(_parts'[1])]
                  IN /\ Len(_parts'[1]) = Len(_parts[1]) + 1
                     /\ chunk = EscapedText(s)
                     /\ \A i \in 1..Len(chunk) : chunk[i] \notin {"<", ">"}
                     /\ Occurrences(chunk, <<"\"">>) = Occurrences(s, <<"\"">>)
                     /\ Occurrences(chunk, <<"'">>) = Occurrences(s, <<"'">>)]_vars

\* C18 witness: the text  &"  has just been written as  &amp;"
C18_Witness ==
    /\ last.op = "text"
    /\ _parts[1] = << <<"&", "a", "m", "p", ";", "\"">> >>

\* C19: attribute-value escaping. When the opening tag of a context is
\* written, every attribute value that is not None, given as a keyword
\* attribute, through attr() or built by classes(), stands in it with each
\* of & < > " ' replaced by its character reference: the only double quotes
\* of the tag are the two around each value, and it holds no single quote.
C19_AttrValueEscaping ==
    [][\A c \in 1..Len(contexts) :
          Materializes(c) =>
              LET items == Applied(requested[c].attrs, requested[c].sets)
                  shown == {i \in 1..Len(items) : items[i].v # None}
                  chunk == OpeningChunk(c)
              IN /\ chunk = <<"<">> \o contexts[c]._tag_name \o EscapedAttrs(items)
                               \o (IF contexts[c]._self_closing
                                   THEN <<" ", "/", ">">> ELSE <<">">>)
                 /\ Occurrences(chunk, <<"\"">>) = 2 * Cardinality(shown)
                 /\ Occurrences(chunk, <<"'">>) = 0
                 /\ Occurrences(chunk, <<"<">>) = 1
                 /\ Occurrences(chunk, <<">">>) = 1]_vars

\* C19 witness: the opening tag of a context is written whose class value,
\* built by two classes() calls, holds & ' and "
C19_Witness ==
    \E c \in 1..Len(contexts) :
        /\ contexts[c]._opened
        /\ Len(requested[c].sets) = 2
        /\ contexts[c]._attrs # <<>>
        /\ \A ch \in {"&", "'", "\""} :
              \E i \in 1..Len(contexts[c]._attrs[1].v.s) : contexts[c]._attrs[1].v.s[i] = ch

\* no further conversion changes the name m: it is neither of the two special
\* names, does not end with an underscore and holds no underscore between
\* two word characters
Stable(m) ==
    /\ m \notin {class_, classes_alias}
    /\ ~(m # <<>> /\ m[Len(m)] = "_")
    /\ ~\E i \in 1..(Len(m) - 2) :
           IsWordChar(m[i]) /\ m[i + 1] = "_" /\ IsWordChar(m[i + 2])

\* C20 (as stated): every call _convert_attr_name(n) returns what the
\* conversion computes afresh for n, and converting the returned name again
\* returns it unchanged.
C20_Idempotent ==
    [][IsCall("_convert_attr_name") =>
          LET n == last'.ret[1]
              m == last'.ret[2]
          IN /\ m = convert_uncached(n)
             /\ _convert_attr_name(_ATTR_NAME_CACHE', m).name = m]_vars

\* C20 (amended): every call _convert_attr_name(n), served from the cache or
\* not, returns what the conversion computes afresh for n; converting the
\* returned name again returns it unchanged exactly when it is not "class_"
\* or "classes", does not end with an underscore and holds no underscore
\* between two word characters (a__ gives a_ and then a).
C20_IdempotentWhereStable ==
    [][IsCall("_convert_attr_name") =>
          LET n == last'.ret[1]
              m == last'.ret[2]
          IN /\ m = convert_uncached(n)
             /\ n \in DOMAIN _ATTR_NAME_CACHE => m = _ATTR_NAME_CACHE[n]
             /\ _ATTR_NAME_CACHE'[n] = m
             /\ (_convert_attr_name(_ATTR_NAME_CACHE', m).name = m) <=> Stable(m)]_vars

\* C20 witness: a_a was converted to a-a, a-a was converted in turn and came
\* back unchanged, and the last call was answered from the cache
C20_Witness ==
    /\ last.op = "_convert_attr_name"
    /\ last.twice
    /\ last.ret = << <<"a", "-", "a">>, <<"a", "-", "a">> >>
    /\ DOMAIN _ATTR_NAME_CACHE = { <<"a", "_", "a">>, <<"a", "-", "a">> }
    /\ calls = 3

\* name with every underscore that stands between two word characters
\* replaced by a hyphen, position by position
Hyphenated(name) ==
    [i \in 1..Len(name) |->
        IF /\ name[i] = "_" /\ 1 < i /\ i < Len(name)
           /\ IsWordChar(name[i - 1]) /\ IsWordChar(name[i + 1])
        THEN "-" ELSE name[i]]

\* no two underscores of name are next to each other
SeparateFillers(name) ==
    \A i \in 1..(Len(name) - 1) : ~(name[i] = "_" /\ name[i + 1] = "_")

\* C21 (as claimed): the normalization rule. _convert_attr_name(n) returns
\* "class" for class_ and classes; n without its last character for any other
\* n that ends with an underscore; and otherwise, for n whose underscores are
\* separate, n with every underscore between two word characters replaced by
\* a hyphen, however short the segments between them (a_a_a gives a-a-a).
C21_NormalizationRule ==
    [][IsCall("_convert_attr_name") =>
          LET n == last'.ret[1]
              m == last'.ret[2]
          IN IF n \in {class_, classes_alias} THEN m = class
             ELSE IF n # <<>> /\ n[Len(n)] = "_" THEN m = SubSeq(n, 1, Len(n) - 1)
             ELSE SeparateFillers(n) => m = Hyphenated(n)]_vars

\* the with-blocks of non-self-closing contexts of fragment f that the
\* caller is inside of
EnteredScopes(f) ==
    {i \in 1..Len(scopes) :
        contexts[scopes[i].c]._fragment = f /\ ~contexts[scopes[i].c]._self_closing}

\* C22 (as claimed): the stack-length invariant. After every operation, for
\* every fragment, _tag_stack and _context_stack have the same length, that
\* length is the number of non-self-closing scopes entered and not yet left,
\* and the i-th name of _tag_stack is the tag name of the i-th context of
\* _context_stack.
C22_StackLengths ==
    \A f \in Fragments :
        /\ Len(_tag_stack[f]) = Len(_context_stack[f])
        /\ Len(_tag_stack[f]) = Cardinality(EnteredScopes(f))
        /\ \A i \in 1..Len(_context_stack[f]) :
              i <= Len(_tag_stack[f]) =>
                  _tag_stack[f][i] = contexts[_context_stack[f][i]]._tag_name

\* the two stacks of every fragment have the same length, which no more than
\* the scopes entered and not yet left account for, and hold the same tags
StacksAgree ==
    \A f \in Fragments :
        /\ Len(_tag_stack[f]) = Len(_context_stack[f])
        /\ Len(_tag_stack[f]) <= Cardinality(EnteredScopes(f))
        /\ \A i \in 1..Len(_context_stack[f]) :
              _tag_stack[f][i] = contexts[_context_stack[f][i]]._tag_name

\* C22 (amended): after every operation, for every fragment, _tag_stack and
\* _context_stack have the same length and the i-th name of _tag_stack is the
\* tag name of the i-th context of _context_stack. That length is the number
\* of non-self-closing scopes entered and not yet left until clear() is
\* called inside such a scope: every other operation keeps the two numbers
\* equal, clear() empties both stacks whatever scopes are entered, and from
\* then on the length is the smaller number.
C22_StackLengthsSinceClear ==
    /\ []StacksAgree
    /\ [][\A f \in Fragments :
             /\ (IsCall("clear") /\ last'.f = f)
                   => _tag_stack'[f] = <<>> /\ _context_stack'[f] = <<>>
             /\ (/\ Len(_tag_stack[f]) = Cardinality(EnteredScopes(f))
                 /\ ~(IsCall("clear") /\ last'.f = f))
                   => Len(_tag_stack'[f]) = Cardinality(EnteredScopes(f)')]_vars

\* C22 witness: a scope was entered after a clear() made inside another
\* scope; the stacks hold the one entered since, the caller is inside two
C22_Witness ==
    /\ last.op = "__enter__"
    /\ Len(_tag_stack[1]) = 1
    /\ Len(_context_stack[1]) = 1
    /\ Cardinality(EnteredScopes(1)) = 2

\* C23 (as claimed): a context that is requested and never entered has no
\* effect. Every tag() call leaves the output of every fragment, both stacks
\* and every existing context (attributes, opened flag) as they were.
C23_RequestHasNoEffect ==
    [][IsCall("tag") =>
          /\ UNCHANGED <<_parts, _tag_stack, _context_stack>>
          /\ \A c \in 1..Len(contexts) : contexts'[c] = contexts[c]]_vars

\* C23 (amended): every tag() call leaves both stacks and the attributes of
\* every existing context as they were and creates one pending context. Its
\* one effect is on the current context of the fragment: if that is still
\* pending, its opening tag is appended and its opened flag set; otherwise
\* the output and every context are as before. The opening tag of a context
\* is written only while the caller is inside a scope of that context or
\* enters one: a context never entered writes nothing.
C23_RequestOnlyForcesCurrent ==
    [][/\ \A f \in Fragments :
             (IsCall("tag") /\ last'.f = f) =>
                 LET top == PendingTop(f)
                     new == contexts'[Len(contexts')]
                 IN /\ UNCHANGED <<_tag_stack, _context_stack, exc>>
                    /\ Len(contexts') = Len(contexts) + 1
                    /\ ~new._opened /\ new._fragment = f
                    /\ \A c \in 1..Len(contexts) :
                          contexts'[c] = IF c = top
                                         THEN [contexts[c] EXCEPT !._opened = TRUE]
                                         ELSE contexts[c]
                    /\ \A g \in Fragments \ {f} : _parts'[g] = _parts[g]
                    /\ _parts'[f] = IF top = 0 THEN _parts[f]
                                    ELSE Append(_parts[f],
                                                OpeningText(contexts[top]._tag_name,
                                                            contexts[top]._attrs,
                                                            contexts[top]._self_closing))
       /\ \A c \in 1..Len(contexts) :
             Materializes(c) =>
                 \/ \E i \in 1..Len(scopes) : scopes[i].c = c
                 \/ last'.op = "__enter__" /\ last'.c = c]_vars

\* C23 witness: a tag was requested inside the scope of a pending context
\* and never entered; the scope's opening tag is the only output and the
\* attr() made after the request failed
C23_Witness ==
    /\ Len(contexts) = 2
    /\ _context_stack[1] = <<1>>
    /\ contexts[1]._opened /\ ~contexts[2]._opened
    /\ Len(_parts[1]) = 1
    /\ last.op = "attr"
    /\ exc = "TagAlreadyOpenedError"

\* C24: at every scope exit of a non-self-closing context that finds a name
\* to pop, normal or unwinding, the name on top of _tag_stack is the exiting
\* context's own tag name and the context on top of _context_stack is the
\* exiting context itself; the exit pops both, raises nothing and appends
\* the closing tag of that name as the last chunk.
C24_PoppedIsExiting ==
    [][\A c \in 1..Len(contexts) :
          LET f == contexts[c]._fragment
              n == Len(_tag_stack[f])
          IN (/\ IsExit /\ last'.c = c
              /\ ~contexts[c]._self_closing
              /\ _tag_stack[f] # <<>>)
                => /\ _tag_stack[f][n] = contexts[c]._tag_name
                   /\ _context_stack[f] # <<>>
                   /\ _context_stack[f][Len(_context_stack[f])] = c
                   /\ _tag_stack'[f] = Pop(_tag_stack[f])
                   /\ _context_stack'[f] = Pop(_context_stack[f])
                   /\ _parts'[f][Len(_parts'[f])] = ClosingTag(contexts[c]._tag_name)
                   /\ exc' = exc]_vars

\* C24 witness: inside the scope of a div that a clear() cut off, a p was
\* entered and has just been left: its own closing tag is the last chunk
C24_Witness ==
    /\ last.op = "__exit__"
    /\ Len(scopes) = 1
    /\ contexts[scopes[1].c]._tag_name = div
    /\ last.c # scopes[1].c
    /\ contexts[last.c]._tag_name = para
    /\ _tag_stack[1] = <<>>
    /\ _parts[1] = << <<"<", "p", ">">>, <<"<", "/", "p", ">">> >>

\* the contexts of fragment f whose opening tag this step writes
MaterializedOn(f) ==
    {c \in 1..Len(contexts) : contexts[c]._fragment = f /\ Materializes(c)}

\* C25: _ensure_opened is idempotent. No step writes the opening tag of a
\* context that is already opened, and an opened context stays opened, so
\* each context's opening tag is appended at most once; a tag(), an embed
\* or a scope exit that finds its context pending writes it (the first
\* forcing event). In every step other than clear(), the chunks appended to a fragment
\* are the opening tag of the one context the step materializes, if any,
\* followed by at most one chunk of the operation itself (the text, the raw
\* content, the embedded text or the closing tag): a forcing event that
\* finds its context opened appends only its own chunk.
C25_OpenedOnce ==
    [][\A f \in Fragments :
          LET n == Len(_parts[f])
              opening == Cardinality(MaterializedOn(f))
              own == Len(_parts'[f]) - n - opening
          IN /\ \A c \in 1..Len(contexts) : contexts[c]._opened => contexts'[c]._opened
             /\ opening <= 1
             /\ ((IsCall("tag") \/ IsCall("fragment")) /\ last'.f = f /\ PendingTop(f) # 0)
                   => Materializes(PendingTop(f))
             /\ \A c \in 1..Len(contexts) :
                   (IsExit /\ last'.c = c /\ ~contexts[c]._self_closing /\ ~contexts[c]._opened)
                       => Materializes(c)
             /\ ~(IsCall("clear") /\ last'.f = f) =>
                   /\ SubSeq(_parts'[f], 1, n) = _parts[f]
                   /\ own \in {0, 1}
                   /\ last'.op \in {"tag", "__enter__", "attr", "classes", "render", "except"}
                         => own = 0
                   /\ \A c \in MaterializedOn(f) :
                         _parts'[f][n + 1] = OpeningText(contexts[c]._tag_name,
                                                         contexts[c]._attrs,
                                                         contexts[c]._self_closing)]_vars

\* C25 witness: a div was opened by a first forcing event and three more
\* followed in its scope; the output holds its opening tag once, then their
\* chunks
C25_Witness ==
    /\ _context_stack[1] = <<1>>
    /\ contexts[1]._opened
    /\ Len(contexts) = 2
    /\ Len(_parts[1]) = 3
    /\ _parts[1][1] = <<"<", "d", "i", "v", ">">>
    /\ _parts[1][2] # _parts[1][1] /\ _parts[1][3] # _parts[1][1]
    /\ last.op = "tag"

\* C26: the opened flag is monotonic. A context is created with _opened
\* false; the step that sets the flag appends the context's opening tag to
\* its fragment; no step, clear(), scope exit and a further scope entry of
\* the context included, sets the flag back to false; and once the flag is
\* true no step changes the context's attributes, tag name, fragment or
\* self-closing mark.
C26_OpenedMonotonic ==
    [][/\ \A c \in (Len(contexts) + 1)..Len(contexts') : ~contexts'[c]._opened
       /\ Len(contexts') >= Len(contexts)
       /\ \A c \in 1..Len(contexts) :
             /\ contexts[c]._opened => contexts'[c] = contexts[c]
             /\ Materializes(c) =>
                   /\ contexts'[c] = [contexts[c] EXCEPT !._opened = TRUE]
                   /\ Len(_parts'[contexts[c]._fragment]) > Len(_parts[contexts[c]._fragment])
                   /\ OpeningChunk(c) = OpeningText(contexts[c]._tag_name,
                                                    contexts[c]._attrs,
                                                    contexts[c]._self_closing)]_vars

\* C26 witness: a context with an attribute was opened, the fragment was
\* cleared inside its scope and the context entered once more: it is still
\* opened, with the attributes it had
C26_Witness ==
    /\ Len(scopes) = 2
    /\ scopes[1].c = scopes[2].c
    /\ contexts[scopes[1].c]._opened
    /\ contexts[scopes[1].c]._attrs # <<>>
    /\ _parts[1] = <<>>
    /\ _context_stack[1] = <<scopes[1].c>>
    /\ last.op = "__enter__"

\* C27: the output is append-only. Every step other than a clear() of the
\* fragment leaves the chunks the fragment holds unchanged and in place: the
\* output before the step is a prefix of the output after it. A call that
\* raises NoTagContextError or TagAlreadyOpenedError leaves the output of
\* every fragment identical.
C27_AppendOnly ==
    [][/\ \A f \in Fragments :
             ~(IsCall("clear") /\ last'.f = f) =>
                 /\ Len(_parts'[f]) >= Len(_parts[f])
                 /\ SubSeq(_parts'[f], 1, Len(_parts[f])) = _parts[f]
       /\ (exc = "none" /\ exc' \in {"NoTagContextError", "TagAlreadyOpenedError"})
             => UNCHANGED _parts]_vars

\* C27 witness: an attr() has just failed on an opened context, in a
\* fragment that holds an opening tag and two more chunks
C27_Witness ==
    /\ exc = "TagAlreadyOpenedError"
    /\ last.op = "attr"
    /\ Len(_parts[1]) = 3
    /\ _context_stack[1] # <<>>

\* the chunk is a closing tag  </name>
IsClosingChunk(chunk) ==
    Len(chunk) >= 3 /\ chunk[1] = "<" /\ chunk[2] = "/" /\ chunk[Len(chunk)] = ">"

\* the chunk is the tag of a void element  <name ... />
IsVoidChunk(chunk) ==
    /\ Len(chunk) >= 4 /\ chunk[1] = "<"
    /\ SubSeq(chunk, Len(chunk) - 2, Len(chunk)) = <<" ", "/", ">">>

\* the chunk is the opening tag of a non-void element  <name ...>
IsOpeningChunk(chunk) ==
    /\ Len(chunk) >= 3 /\ chunk[1] = "<" /\ chunk[Len(chunk)] = ">"
    /\ ~IsClosingChunk(chunk) /\ ~IsVoidChunk(chunk)

\* the element name of an opening tag: the characters after "<" up to the
\* first space or ">"
OpeningName(chunk) ==
    LET stop == CHOOSE i \in 2..Len(chunk) :
                    /\ chunk[i] \in {" ", ">"}
                    /\ \A j \in 2..(i - 1) : chunk[j] \notin {" ", ">"}
    IN SubSeq(chunk, 2, stop - 1)

\* the element name of a closing tag
ClosingName(chunk) == SubSeq(chunk, 3, Len(chunk) - 1)

RECURSIVE Nests(_, _)
\* the chunks, read with the names of the elements open so far in open
\* (innermost last), are well nested: a closing tag closes the innermost
\* open element, and no element is left open at the end
Nests(chunks, open) ==
    IF chunks = <<>> THEN open = <<>>
    ELSE LET chunk == Head(chunks)
         IN IF IsOpeningChunk(chunk)
            THEN Nests(Tail(chunks), Append(open, OpeningName(chunk)))
            ELSE IF IsClosingChunk(chunk)
                 THEN /\ open # <<>>
                      /\ open[Len(open)] = ClosingName(chunk)
                      /\ Nests(Tail(chunks), Pop(open))
                 ELSE Nests(Tail(chunks), open)

\* C28 (as claimed): whenever render() succeeds on output written through
\* tag scopes and text alone, the output is well nested: every closing tag
\* closes the innermost element still open, which has the same name, and
\* every opening tag of a non-void element has its closing tag.
C28_WellNested ==
    [][(IsCall("render") /\ exc' = "none") => Nests(_parts[last'.f], <<>>)]_vars

\* C29 (as claimed): a failed embed is atomic for the host. When
\* fragment(other) raises UnclosedTagsError, the host's output, both its
\* stacks and every context (opened flag, attributes) are as before the
\* call, so that an attr() on the current context succeeds as it would have
\* before.
C29_FailedEmbedAtomic ==
    [][(IsCall("fragment") /\ exc' = "UnclosedTagsError")
          => UNCHANGED <<_parts, _tag_stack, _context_stack, contexts>>]_vars

\* C30 (as claimed): clear() inside entered scopes detaches them. The exit
\* of a non-self-closing scope that finds the stacks emptied by clear()
\* completes without raising and appends nothing to the output.
C30_ClearDetachesScopes ==
    [][\A c \in 1..Len(contexts) :
          (/\ IsExit /\ last'.c = c
           /\ ~contexts[c]._self_closing
           /\ _tag_stack[contexts[c]._fragment] = <<>>)
             => /\ exc' = exc
                /\ UNCHANGED _parts]_vars

\* the caller is inside the with-block of a self-closing context of fragment f
InVoidScope(f) ==
    /\ scopes # <<>>
    /\ contexts[scopes[Len(scopes)].c]._self_closing
    /\ contexts[scopes[Len(scopes)].c]._fragment = f

\* the context of the innermost non-self-closing scope of fragment f that
\* the caller is inside of, 0 when there is none
Enclosing(f) ==
    IF EnteredScopes(f) = {} THEN 0
    ELSE scopes[CHOOSE i \in EnteredScopes(f) : \A j \in EnteredScopes(f) : j <= i].c

\* what attr(), classes() and text() do inside the scope of a self-closing
\* context of fragment f when cur is the current context (0: none): attr()
\* and classes() fail with NoTagContextError when there is none and with
\* TagAlreadyOpenedError when it is opened, and otherwise reach it; they
\* leave the output, the stacks and every other context, the void element
\* included, as they were; text() with content forces cur if it is pending
\* and appends its chunk last, after the void element
InVoidScopeActsOn(f, cur) ==
    /\ (IsAttrCall /\ last'.f = f) =>
          /\ UNCHANGED <<_parts, _tag_stack, _context_stack>>
          /\ \A c \in 1..Len(contexts) : c # cur => contexts'[c] = contexts[c]
          /\ cur = 0 => exc' = "NoTagContextError"
          /\ cur # 0 =>
                /\ ~contexts[cur]._self_closing
                /\ IF contexts[cur]._opened
                   THEN exc' = "TagAlreadyOpenedError" /\ contexts'[cur] = contexts[cur]
                   ELSE /\ exc' = "none"
                        /\ Len(requested'[cur].sets) = Len(requested[cur].sets) + 1
                        /\ contexts'[cur]._attrs =
                               Applied(requested'[cur].attrs, requested'[cur].sets)
    /\ (IsCall("text") /\ last'.f = f) =>
          \/ UNCHANGED Program
          \/ /\ \E content \in Contents \ {None} :
                   _parts'[f][Len(_parts'[f])] = _escape_text(content)
             /\ Len(_parts'[f]) = Len(_parts[f]) + (IF cur # 0 /\ ~contexts[cur]._opened
                                                    THEN 2 ELSE 1)
             /\ SubSeq(_parts'[f], 1, Len(_parts[f])) = _parts[f]
             /\ \A c \in 1..Len(contexts) :
                   contexts'[c] = IF c = cur THEN [contexts[c] EXCEPT !._opened = TRUE]
                                  ELSE contexts[c]

\* C31 (as claimed): inside the scope of a self-closing tag the current
\* context is the enclosing non-self-closing scope: attr() and classes() made
\* there are applied to the context of the innermost non-self-closing scope
\* the caller is inside of (NoTagContextError when there is none,
\* TagAlreadyOpenedError when it is opened) and never change the void
\* element, and text written there is appended after the void element.
C31_VoidScopeKeepsEnclosing ==
    /\ [](\A f \in Fragments : InVoidScope(f) => Current(State, f) = Enclosing(f))
    /\ [][\A f \in Fragments : InVoidScope(f) => InVoidScopeActsOn(f, Enclosing(f))]_vars

\* C31 (amended): entering and leaving the scope of a self-closing tag leaves
\* both stacks as they were, so inside it the current context is the top of
\* _context_stack as it was outside: attr() and classes() made there are
\* applied to it (NoTagContextError when the stack is empty,
\* TagAlreadyOpenedError when it is opened) and never change the void
\* element, and text written there is appended after the void element. The
\* current context is the context of the innermost non-self-closing scope
\* entered as long as no clear() was made inside such a scope; after one,
\* there is no current context until another scope is entered.
C31_VoidScopeKeepsCurrent ==
    [][\A f \in Fragments :
          /\ \A c \in 1..Len(contexts) :
                (/\ contexts[c]._self_closing /\ contexts[c]._fragment = f
                 /\ last'.c = c /\ (last'.op = "__enter__" \/ IsExit))
                   => /\ UNCHANGED <<_tag_stack, _context_stack>>
                      /\ IsExit => UNCHANGED <<_parts, contexts>>
          /\ InVoidScope(f) =>
                /\ InVoidScopeActsOn(f, Current(State, f))
                /\ Len(_context_stack[f]) = Cardinality(EnteredScopes(f))
                      => Current(State, f) = Enclosing(f)
                /\ Current(State, f) \in {0, Enclosing(f)}]_vars

\* C31 witness: inside the scope of a br entered in the scope of a pending
\* div, an attr() has been applied to the div; the output is the br alone
C31_Witness ==
    /\ Len(scopes) = 2
    /\ contexts[scopes[1].c]._tag_name = div
    /\ contexts[scopes[2].c]._tag_name = br
    /\ last.op = "attr" /\ exc = "none"
    /\ ~contexts[scopes[1].c]._opened
    /\ Len(requested[scopes[1].c].sets) = 1
    /\ _parts[1] = << <<"<", "b", "r", " ", "/", ">">> >>

====
